---------------------------- MODULE Spec2Model ----------------------------
(***************************************************************************)
(* A model of the METAR decoding pipeline of ha_metar_weather:             *)
(*   metar_parser.py  MetarParser (the AVWX path's decoder),               *)
(*   awc_client.py    AWCApiClient.parse_awc_response (the AWC path),      *)
(*   api_client.py    MetarApiClient._fetch_from_avwx / _validate_and_round*)
(*   utils.py         calculate_humidity.                                  *)
(*                                                                         *)
(* Representation.                                                         *)
(*  - A Python str is a sequence of characters; a character is a           *)
(*    one-character TLA+ string.  The single non-ASCII character of the    *)
(*    model's alphabet is SuperscriptTwo (U+00B2), written "sup2": Python's*)
(*    str.isdigit() accepts it, the regex class \d, int() and float() do   *)
(*    not.                                                                 *)
(*  - A Python float is an integer count of thousandths (5.0 is 5000):     *)
(*    every number the decoders produce from the model's inputs is a       *)
(*    multiple of 0.001.  Cloud heights (Python int, feet) are integers.   *)
(*  - Optional[X] is a sequence: None is <<>>, a value v is <<v>>.         *)
(***************************************************************************)
EXTENDS Integers, Sequences, FiniteSets, TLC

None == <<>>
Some(v) == <<v>>
IsNone(o) == o = <<>>
Val(o) == o[1]

(***************************************************************************)
(* Characters and the str methods the decoders use.                        *)
(***************************************************************************)
Digits == {"0", "1", "2", "3", "4", "5", "6", "7", "8", "9"}
SuperscriptTwo == "sup2"
UpperCase == {"A", "B", "C", "D", "E", "F", "G", "H", "I", "J", "K", "L", "M",
              "N", "O", "P", "Q", "R", "S", "T", "U", "V", "W", "X", "Y", "Z"}

DigitValue(c) ==
    CASE c = "0" -> 0 [] c = "1" -> 1 [] c = "2" -> 2 [] c = "3" -> 3
      [] c = "4" -> 4 [] c = "5" -> 5 [] c = "6" -> 6 [] c = "7" -> 7
      [] c = "8" -> 8 [] c = "9" -> 9

\* s[i:j] of Python (0-based, end exclusive, clipped to the string).
Slice(s, i, j) ==
    LET hi == IF j > Len(s) THEN Len(s) ELSE j
    IN  IF i >= hi THEN <<>> ELSE SubSeq(s, i + 1, hi)

\* s[i:] of Python.
SliceFrom(s, i) == Slice(s, i, Len(s))

startswith(s, p) == Len(s) >= Len(p) /\ SubSeq(s, 1, Len(p)) = p

endswith(s, p) == Len(s) >= Len(p) /\ SubSeq(s, Len(s) - Len(p) + 1, Len(s)) = p

\* `p in s` for strings: p occurs in s as a substring.
contains(s, p) ==
    \E i \in 1..(Len(s) - Len(p) + 1) : SubSeq(s, i, i + Len(p) - 1) = p

\* str.isdigit(): non-empty and every character is a digit character,
\* superscript digits included.
isdigit(s) == s # <<>> /\ \A i \in DOMAIN s : s[i] \in Digits \cup {SuperscriptTwo}

\* str.isalnum() on the model's alphabet.
isalnum(s) ==
    s # <<>> /\ \A i \in DOMAIN s : s[i] \in UpperCase \cup Digits \cup {SuperscriptTwo}

\* The string matches \d+ in full (ASCII digits are the alphabet's only \d).
AllDigits(s) == s # <<>> /\ \A i \in DOMAIN s : s[i] \in Digits

\* The number of consecutive \d characters of s starting at index i (1-based).
RECURSIVE DigitRun(_, _)
DigitRun(s, i) ==
    IF i <= Len(s) /\ s[i] \in Digits THEN 1 + DigitRun(s, i + 1) ELSE 0

\* int(s) for a string of ASCII digits.
RECURSIVE int(_)
int(s) ==
    IF s = <<>> THEN 0
    ELSE 10 * int(SubSeq(s, 1, Len(s) - 1)) + DigitValue(s[Len(s)])

\* float(s) succeeds: an optional sign followed by ASCII digits.  (The
\* alphabet holds no ".", "e", "_" and the inputs no "nan"/"inf" spelling,
\* the other forms float() accepts.)
FloatOk(s) ==
    LET body == IF s # <<>> /\ s[1] \in {"-", "+"} THEN Tail(s) ELSE s
    IN  AllDigits(body)

\* float(s), in thousandths, where FloatOk(s).
float(s) ==
    IF s[1] = "-" THEN -1000 * int(Tail(s))
    ELSE IF s[1] = "+" THEN 1000 * int(Tail(s))
    ELSE 1000 * int(s)

\* str.replace('M', '-').
RECURSIVE replaceM(_)
replaceM(s) ==
    IF s = <<>> THEN <<>>
    ELSE <<IF s[1] = "M" THEN "-" ELSE s[1]>> \o replaceM(Tail(s))

\* str.split(): the maximal runs of non-whitespace characters.
RECURSIVE splitFrom(_, _, _)
splitFrom(s, i, cur) ==
    IF i > Len(s) THEN (IF cur = <<>> THEN <<>> ELSE <<cur>>)
    ELSE IF s[i] = " "
         THEN (IF cur = <<>> THEN <<>> ELSE <<cur>>) \o splitFrom(s, i + 1, <<>>)
         ELSE splitFrom(s, i + 1, Append(cur, s[i]))

split(s) == splitFrom(s, 1, <<>>)

\* str.split(sep) for a one-character separator: empty fields are kept.
RECURSIVE splitOnFrom(_, _, _, _)
splitOnFrom(s, sep, i, cur) ==
    IF i > Len(s) THEN <<cur>>
    ELSE IF s[i] = sep
         THEN <<cur>> \o splitOnFrom(s, sep, i + 1, <<>>)
         ELSE splitOnFrom(s, sep, i + 1, Append(cur, s[i]))

splitOn(s, sep) == splitOnFrom(s, sep, 1, <<>>)

(***************************************************************************)
(* Numbers.  round(x, 1) of a value given as the exact fraction n/d of a   *)
(* tenth: the nearest tenth, a tie going to the even one.                  *)
(***************************************************************************)
RoundDiv(n, d) ==
    LET q == n \div d
        r == n % d
    IN  IF 2 * r > d THEN q + 1
        ELSE IF 2 * r < d THEN q
        ELSE IF q % 2 = 0 THEN q ELSE q + 1

\* A round(x, 1) that cuts the digits after the first decimal.
truncate1(x) == 100 * (x \div 100)

\* round(x, 1) for x in thousandths; the result in thousandths.
round1(x) == 100 * RoundDiv(x, 100)


(***************************************************************************)
(* Program constants (const.py), as integers.                              *)
(***************************************************************************)
\* KNOTS_TO_KMH = 1.852 and MPS_TO_KMH = 3.6, in thousandths.
KNOTS_TO_KMH == 1852
MPS_TO_KMH == 3600
\* MILES_TO_KM = 1.60934, in hundred-thousandths.
MILES_TO_KM == 160934
\* A conversion factor cut to two decimals (33.86), in ten-thousandths.
INHG_TO_HPA_TwoDecimals == 33860 * 10

\* INHG_TO_HPA = 33.8639, in ten-thousandths.
INHG_TO_HPA == 338639

\* The ceilings _parse_wind validates against.
MaxSpeedKt == 200
MaxGustKt == 300
MaxSpeedMps == 100
MaxGustMps == 150
MaxDirection == 360

(***************************************************************************)
(* MetarParser._parse_wind.                                                *)
(***************************************************************************)
KT == <<"K", "T">>
MPS == <<"M", "P", "S">>
VRB == <<"V", "R", "B">>

\* wind_variable_direction: None, "VRB", or the f-string
\* f"{start_dir:03d}°-{end_dir:03d}°", kept as its two numbers.
VarNone == <<"None", 0, 0>>
VarVRB == <<"VRB", 0, 0>>
VarRange(a, b) == <<"range", a, b>>

NoMatch == [ok |-> FALSE, speed |-> 0, gust |-> None]

\* The tail  (\d{2,3})(?:G(\d{2,3}))?<unit>  of both wind patterns, matched
\* at index p of part (re.match: anchored at the start, not at the end).
\* \d{2,3} is greedy and a digit can be followed only by G or the unit, so
\* the digit run at p has to be 2 or 3 long.
SpeedGustAt(part, p, unit) ==
    LET n == DigitRun(part, p)
        q == p + n
        m == DigitRun(part, q + 1)
    IN  IF n \notin {2, 3} THEN NoMatch
        ELSE IF q <= Len(part) /\ part[q] = "G" /\ m \in {2, 3}
                /\ startswith(SliceFrom(part, q + m), unit)
             THEN [ok |-> TRUE, speed |-> int(SubSeq(part, p, q - 1)),
                   gust |-> Some(int(SubSeq(part, q + 1, q + m)))]
        ELSE IF startswith(SliceFrom(part, q - 1), unit)
             THEN [ok |-> TRUE, speed |-> int(SubSeq(part, p, q - 1)), gust |-> None]
        ELSE NoMatch

\* re.match(r'VRB(\d{2,3})(?:G(\d{2,3}))?KT', part), and the MPS pattern.
vrb_match(part, unit) ==
    IF startswith(part, VRB) THEN SpeedGustAt(part, 4, unit) ELSE NoMatch

\* re.match(r'(\d{3})(\d{2,3})(?:G(\d{2,3}))?KT', part), and the MPS pattern:
\* group(1) is read by WindDirectionOf.
wind_match(part, unit) ==
    IF DigitRun(part, 1) >= 3 THEN SpeedGustAt(part, 4, unit) ELSE NoMatch

WindDirectionOf(part) == int(SubSeq(part, 1, 3))

\* The gust assignment shared by the four branches.
WithGust(result, m, factor, maxGust) ==
    IF ~IsNone(m.gust) /\ Val(m.gust) <= maxGust
    THEN [result EXCEPT !.gust = Some(round1(Val(m.gust) * factor))]
    ELSE result

\* One `if 'KT' in part:` / `elif 'MPS' in part:` body of the loop.
WindGroup(result, part, unit, factor, maxSpeed, maxGust) ==
    LET vm == vrb_match(part, unit)
        m == wind_match(part, unit)
    IN  IF vm.ok
        THEN LET r1 == [result EXCEPT !.direction = None, !.variable = VarVRB]
             IN  IF vm.speed <= maxSpeed
                 THEN WithGust([r1 EXCEPT !.speed = Some(round1(vm.speed * factor))],
                               vm, factor, maxGust)
                 ELSE r1
        ELSE IF m.ok
        THEN LET direction == WindDirectionOf(part)
             IN  IF m.speed = 0 /\ direction = 0
                 THEN [result EXCEPT !.direction = None, !.speed = Some(0)]
                 ELSE IF direction <= MaxDirection
                 THEN LET r1 == [result EXCEPT !.direction = Some(1000 * direction)]
                      IN  IF m.speed <= maxSpeed
                          THEN WithGust([r1 EXCEPT !.speed = Some(round1(m.speed * factor))],
                                        m, factor, maxGust)
                          ELSE r1
                 ELSE result
        ELSE result

\* The `elif 'V' in part and 5 <= len(part) <= 7:` body:
\* re.match(r'(\d{2,3})V(\d{2,3})', part).
VariableRange(result, part) ==
    LET n == DigitRun(part, 1)
        m == DigitRun(part, n + 2)
        k == IF m > 3 THEN 3 ELSE m
    IN  IF n \in {2, 3} /\ n + 1 <= Len(part) /\ part[n + 1] = "V" /\ m >= 2
        THEN LET start_dir == int(SubSeq(part, 1, n))
                 end_dir == int(SubSeq(part, n + 2, n + 1 + k))
             IN  IF start_dir <= MaxDirection /\ end_dir <= MaxDirection
                 THEN [result EXCEPT !.variable = VarRange(start_dir, end_dir)]
                 ELSE result
        ELSE result

\* The body of `for part in raw_parts:`.
WindStep(result, part) ==
    IF contains(part, KT)
    THEN WindGroup(result, part, KT, KNOTS_TO_KMH, MaxSpeedKt, MaxGustKt)
    ELSE IF contains(part, MPS)
    THEN WindGroup(result, part, MPS, MPS_TO_KMH, MaxSpeedMps, MaxGustMps)
    ELSE IF contains(part, <<"V">>) /\ 5 <= Len(part) /\ Len(part) <= 7
    THEN VariableRange(result, part)
    ELSE result

RECURSIVE WindLoop(_, _, _)
WindLoop(result, raw_parts, i) ==
    IF i > Len(raw_parts) THEN result
    ELSE WindLoop(WindStep(result, raw_parts[i]), raw_parts, i + 1)

_parse_wind(raw_parts) ==
    WindLoop([speed |-> None, direction |-> None, gust |-> None, variable |-> VarNone],
             raw_parts, 1)


(***************************************************************************)
(* MetarParser._parse_temp_dew.  The result is the pair <<temp, dew>>.     *)
(* A ValueError of float() is caught by the function's `except Exception`, *)
(* which returns (None, None).                                             *)
(***************************************************************************)
MinTemperature == -100000
MaxTemperature == 60000

LooksLikeTemp(str) == str # <<>> /\ (str[1] \in Digits \cup {SuperscriptTwo} \/ str[1] = "M")

RECURSIVE TempDewLoop(_, _)
TempDewLoop(raw_parts, i) ==
    IF i > Len(raw_parts) THEN <<None, None>>
    ELSE LET part == raw_parts[i]
             parts == splitOn(part, "/")
         IN  IF ~contains(part, <<"/">>) THEN TempDewLoop(raw_parts, i + 1)
             ELSE IF Len(parts) # 2 THEN TempDewLoop(raw_parts, i + 1)
             ELSE IF ~LooksLikeTemp(parts[1]) \/ ~LooksLikeTemp(parts[2])
                  THEN TempDewLoop(raw_parts, i + 1)
             ELSE IF Len(parts[1]) > 3 \/ Len(parts[2]) > 3
                  THEN TempDewLoop(raw_parts, i + 1)
             ELSE IF ~FloatOk(replaceM(parts[1])) \/ ~FloatOk(replaceM(parts[2]))
                  THEN <<None, None>>
             ELSE LET temp_val == float(replaceM(parts[1]))
                      dew_val == float(replaceM(parts[2]))
                  IN  IF ~(MinTemperature <= temp_val /\ temp_val <= MaxTemperature)
                      THEN <<None, None>>
                      ELSE IF ~(MinTemperature <= dew_val /\ dew_val <= MaxTemperature)
                      THEN <<None, None>>
                      ELSE <<Some(temp_val), Some(dew_val)>>

_parse_temp_dew(raw_parts) == TempDewLoop(raw_parts, 1)

(***************************************************************************)
(* MetarParser._parse_pressure.  float(part[1:]) is an integer count here; *)
(* Adddd is dddd/100 inHg, times INHG_TO_HPA, rounded to a tenth.          *)
(***************************************************************************)
RECURSIVE PressureLoop(_, _)
PressureLoop(raw_parts, i) ==
    IF i > Len(raw_parts) THEN None
    ELSE LET part == raw_parts[i]
             num == SliceFrom(part, 1)
         IN  IF startswith(part, <<"Q">>) /\ Len(part) >= 4 /\ FloatOk(num)
             THEN Some(float(num))
             ELSE IF startswith(part, <<"Q">>) /\ Len(part) >= 4
             THEN PressureLoop(raw_parts, i + 1)
             ELSE IF startswith(part, <<"A">>) /\ Len(part) = 5 /\ FloatOk(num)
             THEN Some(100 * RoundDiv((float(num) \div 1000) * INHG_TO_HPA, 100000))
             ELSE PressureLoop(raw_parts, i + 1)

_parse_pressure(raw_parts) == PressureLoop(raw_parts, 1)

(***************************************************************************)
(* utils.calculate_humidity.  The Magnus expression                        *)
(*   round((e / es) * 100, 1)                                              *)
(* is tabulated (in thousandths, before the clamp) for the temperature and *)
(* dew point pairs the model's inputs produce; the guards and the clamp    *)
(* are the function's own.                                                 *)
(***************************************************************************)
MagnusTable ==
    (<<-10000, -10000>> :> 100000) @@ (<<-10000, -5000>> :> 147300) @@ (<<-10000, -1000>> :> 198500) @@
    (<<-10000, 2000>> :> 246600) @@ (<<-10000, 5000>> :> 304700) @@ (<<-10000, 10000>> :> 428700) @@
    (<<-10000, 15000>> :> 595100) @@ (<<-10000, 200000>> :> 570670700) @@ (<<-5000, -10000>> :> 67900) @@
    (<<-5000, -5000>> :> 100000) @@ (<<-5000, -1000>> :> 134700) @@ (<<-5000, 2000>> :> 167400) @@
    (<<-5000, 5000>> :> 206900) @@ (<<-5000, 10000>> :> 291000) @@ (<<-5000, 15000>> :> 404000) @@
    (<<-5000, 200000>> :> 387397200) @@ (<<-1000, -10000>> :> 50400) @@ (<<-1000, -5000>> :> 74200) @@
    (<<-1000, -1000>> :> 100000) @@ (<<-1000, 2000>> :> 124200) @@ (<<-1000, 5000>> :> 153500) @@
    (<<-1000, 10000>> :> 216000) @@ (<<-1000, 15000>> :> 299800) @@ (<<-1000, 200000>> :> 287534800) @@
    (<<2000, -10000>> :> 40600) @@ (<<2000, -5000>> :> 59700) @@ (<<2000, -1000>> :> 80500) @@
    (<<2000, 2000>> :> 100000) @@ (<<2000, 5000>> :> 123600) @@ (<<2000, 10000>> :> 173900) @@
    (<<2000, 15000>> :> 241300) @@ (<<2000, 200000>> :> 231433700) @@ (<<5000, -10000>> :> 32800) @@
    (<<5000, -5000>> :> 48300) @@ (<<5000, -1000>> :> 65100) @@ (<<5000, 2000>> :> 80900) @@
    (<<5000, 5000>> :> 100000) @@ (<<5000, 10000>> :> 140700) @@ (<<5000, 15000>> :> 195300) @@
    (<<5000, 200000>> :> 187280700) @@ (<<10000, -10000>> :> 23300) @@ (<<10000, -5000>> :> 34400) @@
    (<<10000, -1000>> :> 46300) @@ (<<10000, 2000>> :> 57500) @@ (<<10000, 5000>> :> 71100) @@
    (<<10000, 10000>> :> 100000) @@ (<<10000, 15000>> :> 138800) @@ (<<10000, 200000>> :> 133112600) @@
    (<<15000, -10000>> :> 16800) @@ (<<15000, -5000>> :> 24800) @@ (<<15000, -1000>> :> 33400) @@
    (<<15000, 2000>> :> 41400) @@ (<<15000, 5000>> :> 51200) @@ (<<15000, 10000>> :> 72000) @@
    (<<15000, 15000>> :> 100000) @@ (<<15000, 200000>> :> 95898700) @@ (<<200000, -10000>> :> 0) @@
    (<<200000, -5000>> :> 0) @@ (<<200000, -1000>> :> 0) @@ (<<200000, 2000>> :> 0) @@
    (<<200000, 5000>> :> 100) @@ (<<200000, 10000>> :> 100) @@ (<<200000, 15000>> :> 100) @@
    (<<200000, 200000>> :> 100000)

Magnus(temp, dew) == MagnusTable[<<temp, dew>>]

calculate_humidity(temp, dew) ==
    IF IsNone(temp) \/ IsNone(dew) THEN None
    ELSE IF 237700 + Val(temp) <= 100 \/ 237700 + Val(dew) <= 100 THEN None
    ELSE LET humidity == Magnus(Val(temp), Val(dew))
             capped == IF humidity > 100000 THEN 100000 ELSE humidity
         IN  Some(IF capped < 0 THEN 0 ELSE capped)


(***************************************************************************)
(* utils.parse_runway_states_from_raw.  re.finditer walks the raw string:  *)
(* at each position the pattern                                            *)
(*   R(\d{2}[LCR]?)/(SNOCLO|CLRD[/\d]{2}|[A-Z]{4}[/\d]{2}|\d{6}|\d{4}//)   *)
(* matches or not, and the search goes on after a match.  The result maps  *)
(* a runway to its state [surface, coverage, depth, friction, raw], the    *)
(* friction in thousandths; a later group of a runway replaces an earlier. *)
(***************************************************************************)
RUNWAY_SURFACE_CODES ==
    ("0" :> "Clear and dry") @@ ("1" :> "Damp") @@ ("2" :> "Wet or water patches") @@
    ("3" :> "Rime or frost") @@ ("4" :> "Dry snow") @@ ("5" :> "Wet snow") @@
    ("6" :> "Slush") @@ ("7" :> "Ice") @@ ("8" :> "Compacted snow") @@
    ("9" :> "Frozen ruts or ridges") @@ ("/" :> "Not reported")

RUNWAY_COVERAGE_CODES ==
    ("0" :> "Clear and dry (0%)") @@ ("1" :> "Less than 10%") @@ ("2" :> "11-25%") @@
    ("3" :> "26-50%") @@ ("4" :> "51-75%") @@ ("5" :> "26-50%") @@ ("6" :> "51-75%") @@
    ("7" :> "76-90%") @@ ("8" :> "91-100%") @@ ("9" :> "51-100%") @@ ("/" :> "Not reported")

\* str.lower() of one upper-case letter.
LowerCase ==
    ("A" :> "a") @@ ("B" :> "b") @@ ("C" :> "c") @@ ("D" :> "d") @@ ("E" :> "e") @@
    ("F" :> "f") @@ ("G" :> "g") @@ ("H" :> "h") @@ ("I" :> "i") @@ ("J" :> "j") @@
    ("K" :> "k") @@ ("L" :> "l") @@ ("M" :> "m") @@ ("N" :> "n") @@ ("O" :> "o") @@
    ("P" :> "p") @@ ("Q" :> "q") @@ ("R" :> "r") @@ ("S" :> "s") @@ ("T" :> "t") @@
    ("U" :> "u") @@ ("V" :> "v") @@ ("W" :> "w") @@ ("X" :> "x") @@ ("Y" :> "y") @@
    ("Z" :> "z")

\* str.capitalize() of four upper-case letters, as a text.
capitalize(code) ==
    code[1] \o LowerCase[code[2]] \o LowerCase[code[3]] \o LowerCase[code[4]]

SNOCLO == <<"S", "N", "O", "C", "L", "O">>
CLRD == <<"C", "L", "R", "D">>

\* [/\d]{2}, [A-Z]{4}, \d{n} on a slice of the string.
SlashOrDigits(s) == \A k \in DOMAIN s : s[k] = "/" \/ s[k] \in Digits
AllUpper(s) == \A k \in DOMAIN s : s[k] \in UpperCase

\* The conditions the second group matches at 0-based position j (the
\* alternatives in the pattern's order), or <<>> when none does.
RunwayConditionsAt(s, j) ==
    LET six == Slice(s, j, j + 6)
    IN  IF Len(six) < 6 THEN <<>>
        ELSE IF six = SNOCLO THEN six
        ELSE IF Slice(six, 0, 4) = CLRD /\ SlashOrDigits(Slice(six, 4, 6)) THEN six
        ELSE IF AllUpper(Slice(six, 0, 4)) /\ SlashOrDigits(Slice(six, 4, 6)) THEN six
        ELSE IF AllDigits(six) THEN six
        ELSE IF AllDigits(Slice(six, 0, 4)) /\ Slice(six, 4, 6) = <<"/", "/">> THEN six
        ELSE <<>>

\* The match at 0-based position i: [ok, runway, conditions, end].
NoRunwayMatch == [ok |-> FALSE, runway |-> <<>>, conditions |-> <<>>, end |-> 0]

RunwayMatchAt(s, i) ==
    IF ~(Slice(s, i, i + 1) = <<"R">> /\ Len(Slice(s, i + 1, i + 3)) = 2
         /\ AllDigits(Slice(s, i + 1, i + 3)))
    THEN NoRunwayMatch
    ELSE LET sided == Slice(s, i + 3, i + 4) \in {<<"L">>, <<"C">>, <<"R">>}
             slash == IF sided THEN i + 4 ELSE i + 3
             conditions == RunwayConditionsAt(s, slash + 1)
         IN  IF Slice(s, slash, slash + 1) = <<"/">> /\ conditions # <<>>
             THEN [ok |-> TRUE, runway |-> Slice(s, i + 1, slash),
                   conditions |-> conditions, end |-> slash + 7]
             ELSE NoRunwayMatch

\* A reading of the friction code as a percentage: int(friction_code).
RunwayFriction_Percent(friction_code) ==
    IF friction_code = <<"/", "/">> \/ ~AllDigits(friction_code) THEN None
    ELSE Some(1000 * int(friction_code))

\* int(friction_code) / 100, or None: '//' and a code int() rejects.
RunwayFriction(friction_code) ==
    IF friction_code = <<"/", "/">> \/ ~AllDigits(friction_code) THEN None
    ELSE Some(10 * int(friction_code))

RunwayDepth(depth_code) ==
    IF depth_code = <<"/", "/">> \/ ~AllDigits(depth_code) THEN 0 ELSE int(depth_code)

RunwayState(conditions) ==
    IF conditions = SNOCLO
    THEN [surface |-> "Snow closed", coverage |-> "100%", depth |-> 0,
          friction |-> None, raw |-> conditions]
    ELSE IF startswith(conditions, CLRD)
    THEN [surface |-> "Clear and dry", coverage |-> "0%", depth |-> 0,
          friction |-> RunwayFriction(Slice(conditions, 4, 6)), raw |-> conditions]
    ELSE IF AllUpper(Slice(conditions, 0, 4))
    THEN [surface |-> capitalize(Slice(conditions, 0, 4)), coverage |-> "Unknown",
          depth |-> 0, friction |-> RunwayFriction(Slice(conditions, 4, 6)),
          raw |-> conditions]
    ELSE [surface |-> IF conditions[1] \in DOMAIN RUNWAY_SURFACE_CODES
                      THEN RUNWAY_SURFACE_CODES[conditions[1]] ELSE "Unknown",
          coverage |-> IF conditions[2] \in DOMAIN RUNWAY_COVERAGE_CODES
                       THEN RUNWAY_COVERAGE_CODES[conditions[2]] ELSE "Unknown",
          depth |-> RunwayDepth(Slice(conditions, 2, 4)),
          friction |-> RunwayFriction(Slice(conditions, 4, 6)),
          raw |-> conditions]

NoRunwayStates == <<>>

RECURSIVE RunwayLoop(_, _, _)
RunwayLoop(s, i, runway_states) ==
    IF i >= Len(s) THEN runway_states
    ELSE LET m == RunwayMatchAt(s, i)
         IN  IF m.ok
             THEN RunwayLoop(s, m.end,
                             (m.runway :> RunwayState(m.conditions)) @@ runway_states)
             ELSE RunwayLoop(s, i + 1, runway_states)

parse_runway_states_from_raw(raw_metar) == RunwayLoop(raw_metar, 0, NoRunwayStates)

(***************************************************************************)
(* Code tables (const.py).  A key is a string, a value a text.             *)
(***************************************************************************)
WEATHER_PHENOMENA ==
    (<<"-">> :> "Light") @@ (<<"+">> :> "Heavy") @@ (<<"V", "C">> :> "Vicinity") @@
    (<<"M", "I">> :> "Shallow") @@ (<<"P", "R">> :> "Partial") @@ (<<"B", "C">> :> "Patches") @@
    (<<"D", "R">> :> "Low Drifting") @@ (<<"B", "L">> :> "Blowing") @@ (<<"S", "H">> :> "Shower") @@
    (<<"T", "S">> :> "Thunderstorm") @@ (<<"F", "Z">> :> "Freezing") @@ (<<"D", "Z">> :> "Drizzle") @@
    (<<"R", "A">> :> "Rain") @@ (<<"S", "N">> :> "Snow") @@ (<<"S", "G">> :> "Snow Grains") @@
    (<<"I", "C">> :> "Ice Crystals") @@ (<<"P", "L">> :> "Ice Pellets") @@ (<<"G", "R">> :> "Hail") @@
    (<<"G", "S">> :> "Small Hail") @@ (<<"U", "P">> :> "Unknown Precipitation") @@ (<<"B", "R">> :> "Mist") @@
    (<<"F", "G">> :> "Fog") @@ (<<"F", "U">> :> "Smoke") @@ (<<"V", "A">> :> "Volcanic Ash") @@
    (<<"D", "U">> :> "Widespread Dust") @@ (<<"S", "A">> :> "Sand") @@ (<<"H", "Z">> :> "Haze") @@
    (<<"P", "Y">> :> "Spray") @@ (<<"P", "O">> :> "Dust/Sand Whirls") @@ (<<"S", "Q">> :> "Squalls") @@
    (<<"F", "C">> :> "Funnel Cloud") @@ (<<"S", "S">> :> "Sandstorm") @@ (<<"D", "S">> :> "Duststorm")

CLOUD_COVERAGE ==
    (<<"S", "K", "C">> :> "Clear sky") @@ (<<"C", "L", "R">> :> "No clouds below 12,000ft") @@
    (<<"N", "S", "C">> :> "No significant clouds") @@ (<<"N", "C", "D">> :> "No clouds detected") @@
    (<<"C", "A", "V", "O", "K">> :> "Ceiling and visibility OK") @@ (<<"F", "E", "W">> :> "Few (1-2 oktas)") @@
    (<<"S", "C", "T">> :> "Scattered (3-4 oktas)") @@ (<<"B", "K", "N">> :> "Broken (5-7 oktas)") @@
    (<<"O", "V", "C">> :> "Overcast (8 oktas)") @@ (<<"V", "V">> :> "Vertical visibility")

CLOUD_TYPES ==
    (<<"C", "B">> :> "Cumulonimbus") @@ (<<"T", "C", "U">> :> "Towering Cumulus") @@ (<<"C", "I">> :> "Cirrus") @@
    (<<"C", "S">> :> "Cirrostratus") @@ (<<"C", "C">> :> "Cirrocumulus") @@ (<<"A", "S">> :> "Altostratus") @@
    (<<"A", "C">> :> "Altocumulus") @@ (<<"N", "S">> :> "Nimbostratus") @@ (<<"S", "C">> :> "Stratocumulus") @@
    (<<"S", "T">> :> "Stratus") @@ (<<"C", "U">> :> "Cumulus")

\* dict.get(key): None when the key is missing.
Lookup(table, key) == IF key \in DOMAIN table THEN Some(table[key]) ELSE None

(***************************************************************************)
(* MetarParser.parse_cloud_layers.  A layer is                             *)
(* [coverage, height, type]; an exception inside the loop (int() of a      *)
(* string isdigit() accepted and int() does not) is caught and the         *)
(* function returns [].                                                    *)
(***************************************************************************)
CloudPrefixes == {<<"F", "E", "W">>, <<"S", "C", "T">>, <<"B", "K", "N">>, <<"O", "V", "C">>}
ClearSky == {<<"S", "K", "C">>, <<"C", "L", "R">>, <<"N", "S", "C">>, <<"N", "C", "D">>,
             <<"C", "A", "V", "O", "K">>}

CloudLayer(coverage, height, type) == [coverage |-> coverage, height |-> height, type |-> type]

CloudFailed == [failed |-> TRUE, layers |-> <<>>]

\* The layers one part adds; failed when the part makes int() raise.
CloudPart(part) ==
    IF Slice(part, 0, 3) \in CloudPrefixes
    THEN LET digits == Slice(part, 3, 6)
             hasHeight == Len(part) >= 6 /\ isdigit(digits)
         IN  IF hasHeight /\ ~AllDigits(digits) THEN CloudFailed
             ELSE [failed |-> FALSE,
                   layers |-> <<CloudLayer(CLOUD_COVERAGE[Slice(part, 0, 3)],
                                           IF hasHeight THEN Some(100 * int(digits)) ELSE None,
                                           IF Len(part) > 6
                                           THEN Lookup(CLOUD_TYPES, SliceFrom(part, 6))
                                           ELSE None)>>]
    ELSE IF part \in ClearSky
    THEN [failed |-> FALSE, layers |-> <<CloudLayer(CLOUD_COVERAGE[part], None, None)>>]
    ELSE IF startswith(part, <<"V", "V">>)
    THEN LET height_str == IF Len(part) >= 5 THEN Slice(part, 2, 5) ELSE SliceFrom(part, 2)
         IN  IF height_str = <<>> THEN [failed |-> FALSE, layers |-> <<>>]
             ELSE IF height_str = <<"/", "/", "/">>
             THEN [failed |-> FALSE,
                   layers |-> <<CloudLayer("Vertical Visibility", None,
                                           Some("Obscured (undefined)"))>>]
             ELSE IF isdigit(height_str) /\ ~AllDigits(height_str) THEN CloudFailed
             ELSE IF isdigit(height_str)
             THEN [failed |-> FALSE,
                   layers |-> <<CloudLayer("Vertical Visibility",
                                           Some(100 * int(height_str)), Some("Obscured"))>>]
             ELSE [failed |-> FALSE, layers |-> <<>>]
    ELSE [failed |-> FALSE, layers |-> <<>>]

RECURSIVE CloudLoop(_, _, _)
CloudLoop(parts, i, layers) ==
    IF i > Len(parts) THEN layers
    ELSE LET r == CloudPart(parts[i])
         IN  IF r.failed THEN <<>> ELSE CloudLoop(parts, i + 1, layers \o r.layers)

parse_cloud_layers(raw_metar) == CloudLoop(split(raw_metar), 1, <<>>)

parse_cloud_coverage(raw_metar) ==
    LET clouds == parse_cloud_layers(raw_metar)
    IN  IF clouds = <<>> THEN "Clear" ELSE clouds[1].coverage

parse_cloud_height(raw_metar) ==
    LET clouds == parse_cloud_layers(raw_metar)
    IN  IF clouds = <<>> THEN None ELSE clouds[1].height

parse_cloud_type(raw_metar) ==
    LET clouds == parse_cloud_layers(raw_metar)
    IN  IF clouds = <<>> \/ IsNone(clouds[1].type) THEN "N/A" ELSE Val(clouds[1].type)


(***************************************************************************)
(* MetarParser.parse_weather.  (The AVWX data object carries no `cavok`    *)
(* attribute, so the getattr default False applies.)                       *)
(***************************************************************************)
DESCRIPTORS == {<<"M", "I">>, <<"P", "R">>, <<"B", "C">>, <<"D", "R">>,
                <<"B", "L">>, <<"S", "H">>, <<"T", "S">>, <<"F", "Z">>}

NonWeatherMarkers ==
    {<<"T", "E", "M", "P", "O">>, <<"B", "E", "C", "M", "G">>, <<"F", "M">>, <<"T", "L">>,
     <<"A", "T">>, <<"P", "R", "O", "B", "3", "0">>, <<"P", "R", "O", "B", "4", "0">>,
     <<"S", "K", "C">>, <<"C", "L", "R">>, <<"N", "S", "C">>, <<"N", "C", "D">>,
     <<"A", "U", "T", "O">>, <<"C", "O", "R">>}

\* The three `continue` tests at the head of the loop body.
SkippedByWeather(part) ==
    \/ endswith(part, KT) \/ endswith(part, MPS)
    \/ contains(part, <<"/">>) \/ startswith(part, <<"Q">>)
    \/ isdigit(part)
    \/ part \in {<<"N", "O", "S", "I", "G">>, <<"C", "A", "V", "O", "K">>}
    \/ (startswith(part, <<"A">>) /\ Len(part) = 5 /\ isdigit(SliceFrom(part, 1)))
    \/ part \in NonWeatherMarkers

\* ' '.join(filter(None, words)).
RECURSIVE JoinWords(_)
JoinWords(words) ==
    IF words = <<>> THEN ""
    ELSE IF words[1] = "" THEN JoinWords(Tail(words))
    ELSE LET rest == JoinWords(Tail(words))
         IN  IF rest = "" THEN words[1] ELSE words[1] \o " " \o rest

\* The `while len(remaining) >= 2:` loop: <<descriptor, phenomena_parts>>.
RECURSIVE PhenomenaLoop(_, _, _)
PhenomenaLoop(remaining, descriptor, phenomena_parts) ==
    IF Len(remaining) < 2 THEN <<descriptor, phenomena_parts>>
    ELSE LET code == Slice(remaining, 0, 2)
         IN  IF code \in DESCRIPTORS
             THEN PhenomenaLoop(SliceFrom(remaining, 2), WEATHER_PHENOMENA[code],
                                phenomena_parts)
             ELSE IF code \in DOMAIN WEATHER_PHENOMENA
             THEN PhenomenaLoop(SliceFrom(remaining, 2), descriptor,
                                Append(phenomena_parts, WEATHER_PHENOMENA[code]))
             ELSE <<descriptor, phenomena_parts>>

\* A reading of the assembly that asks for a phenomenon code: no description
\* unless the loop consumed at least one.
WeatherOfPart_NeedsPhenomenon(original_part) ==
    LET signed == startswith(original_part, <<"-">>) \/ startswith(original_part, <<"+">>)
        vicinity == ~signed /\ startswith(original_part, <<"V", "C">>)
        intensity == IF signed THEN WEATHER_PHENOMENA[<<original_part[1]>>]
                     ELSE IF vicinity THEN WEATHER_PHENOMENA[<<"V", "C">>]
                     ELSE ""
        current_part == IF signed THEN SliceFrom(original_part, 1)
                        ELSE IF vicinity THEN SliceFrom(original_part, 2)
                        ELSE original_part
        parsed == PhenomenaLoop(current_part, "", <<>>)
    IN  IF parsed[2] = <<>> THEN ""
        ELSE JoinWords(<<intensity, parsed[1], JoinWords(parsed[2])>>)

\* The description one part assembles ("" when it assembles none).
WeatherOfPart(original_part) ==
    LET signed == startswith(original_part, <<"-">>) \/ startswith(original_part, <<"+">>)
        vicinity == ~signed /\ startswith(original_part, <<"V", "C">>)
        intensity == IF signed THEN WEATHER_PHENOMENA[<<original_part[1]>>]
                     ELSE IF vicinity THEN WEATHER_PHENOMENA[<<"V", "C">>]
                     ELSE ""
        current_part == IF signed THEN SliceFrom(original_part, 1)
                        ELSE IF vicinity THEN SliceFrom(original_part, 2)
                        ELSE original_part
        parsed == PhenomenaLoop(current_part, "", <<>>)
    IN  JoinWords(<<intensity, parsed[1], JoinWords(parsed[2])>>)

InList(x, list) == \E i \in DOMAIN list : list[i] = x

\* The `for original_part in parts:` loop, stopped at RMK.
RECURSIVE WeatherLoop(_, _, _)
WeatherLoop(parts, i, weather_codes) ==
    IF i > Len(parts) \/ parts[i] = <<"R", "M", "K">> THEN weather_codes
    ELSE IF SkippedByWeather(parts[i]) THEN WeatherLoop(parts, i + 1, weather_codes)
    ELSE LET full_weather == WeatherOfPart(parts[i])
         IN  IF full_weather # "" /\ ~InList(full_weather, weather_codes)
             THEN WeatherLoop(parts, i + 1, Append(weather_codes, full_weather))
             ELSE WeatherLoop(parts, i + 1, weather_codes)

\* ', '.join(weather_codes).
RECURSIVE JoinComma(_)
JoinComma(list) ==
    IF list = <<>> THEN ""
    ELSE IF Len(list) = 1 THEN list[1]
    ELSE list[1] \o ", " \o JoinComma(Tail(list))

parse_weather(raw_metar) ==
    LET parts == split(raw_metar)
        codes0 == WeatherLoop(parts, 1, <<>>)
        codes1 == IF InList(<<"R", "E", "S", "N">>, parts)
                  THEN Append(codes0, "Recent Snow") ELSE codes0
        codes2 == IF InList(<<"R", "E", "T", "S">>, parts)
                  THEN Append(codes1, "Recent Thunderstorm") ELSE codes1
        weather_codes == IF InList(<<"R", "E", "R", "A">>, parts)
                         THEN Append(codes2, "Recent Rain") ELSE codes2
    IN  IF weather_codes # <<>> THEN JoinComma(weather_codes) ELSE "Clear"

\* MetarParser.parse_trend (the AVWX data object has no tempo, trend or
\* becoming attribute).
parse_trend(raw_metar) ==
    IF contains(raw_metar, <<"N", "O", "S", "I", "G">>)
    THEN Some("No significant change") ELSE None


(***************************************************************************)
(* The visibility block of MetarParser.get_parsed_data (no CAVOK).  It is  *)
(* outside every try: a ValueError of float(prev_part) leaves              *)
(* get_parsed_data as an exception.                                        *)
(***************************************************************************)
SM == <<"S", "M">>

\* re.match(r'^\d{3}V\d{3}$', part)
IsVariationToken(part) ==
    Len(part) = 7 /\ AllDigits(SubSeq(part, 1, 3)) /\ part[4] = "V"
    /\ AllDigits(SubSeq(part, 5, 7))

\* re.match(r'^\d{4}$', part), r'^(\d{4})NDV$', r'^(\d{4})([NSEW]{1,2})$'
IsMeters(part) == Len(part) = 4 /\ AllDigits(part)

IsMetersNDV(part) ==
    Len(part) = 7 /\ AllDigits(SubSeq(part, 1, 4)) /\ SubSeq(part, 5, 7) = <<"N", "D", "V">>

IsMetersDir(part) ==
    Len(part) \in {5, 6} /\ AllDigits(SubSeq(part, 1, 4))
    /\ \A i \in 5..Len(part) : part[i] \in {"N", "S", "E", "W"}

\* The kilometres of a 4-digit metres group: 9999 means 10 km or more.
MetersToKm(vis_meters) == IF vis_meters = 9999 THEN 10000 ELSE vis_meters

\* re.match(r'^P?(\d+)SM$', part): the digits of group(1), <<>> if no match.
SmDigits(part) ==
    LET body == IF startswith(part, <<"P">>) THEN Tail(part) ELSE part
        digits == Slice(body, 0, Len(body) - 2)
    IN  IF endswith(body, SM) /\ AllDigits(digits) THEN digits ELSE <<>>

\* re.match(r'^(\d+)/(\d+)SM$', part): <<group(1), group(2)>>, <<>> if no match.
FracSmGroups(part) ==
    LET f == splitOn(part, "/")
        den == IF Len(f) = 2 THEN Slice(f[2], 0, Len(f[2]) - 2) ELSE <<>>
    IN  IF Len(f) = 2 /\ AllDigits(f[1]) /\ endswith(f[2], SM) /\ AllDigits(den)
        THEN <<f[1], den>> ELSE <<>>

StopsVisibilityScan(part) ==
    \/ \E p \in CloudPrefixes \cup {<<"S", "K", "C">>, <<"C", "L", "R">>, <<"N", "S", "C">>,
                                  <<"V", "V">>} : startswith(part, p)
    \/ contains(part, <<"/">>)
    \/ startswith(part, <<"Q">>)
    \/ startswith(part, <<"A">>)

\* round(miles * MILES_TO_KM, 1) for miles = n/d, in thousandths of a km.
MilesToKm(n, d) == 100 * RoundDiv(n * MILES_TO_KM, d * 10000)

NoVisibility == [raised |-> FALSE, visibility |-> None]

\* The fractional branch: part is the idx-th part of the window.
FractionalSm(raw_parts, wind_index, idx, groups) ==
    LET numerator == int(groups[1])
        denominator == int(groups[2])
        prev_part == raw_parts[wind_index + 1 + idx]
        mixed == idx > 0 /\ isdigit(prev_part) /\ Len(prev_part) <= 2
                 /\ ~startswith(prev_part, <<"R">>)
    IN  IF denominator = 0 THEN NoVisibility
        ELSE IF mixed /\ ~FloatOk(prev_part) THEN [raised |-> TRUE, visibility |-> None]
        ELSE IF mixed
        THEN [raised |-> FALSE,
              visibility |-> Some(MilesToKm(int(prev_part) * denominator + numerator,
                                            denominator))]
        ELSE [raised |-> FALSE, visibility |-> Some(MilesToKm(numerator, denominator))]

\* for idx, part in enumerate(raw_parts[wind_index + 1:max_visibility_search])
RECURSIVE VisibilityLoop(_, _, _, _)
VisibilityLoop(raw_parts, wind_index, idx, max_visibility_search) ==
    IF wind_index + 1 + idx >= max_visibility_search THEN NoVisibility
    ELSE LET part == raw_parts[wind_index + 2 + idx]
             next == VisibilityLoop(raw_parts, wind_index, idx + 1, max_visibility_search)
         IN  IF IsVariationToken(part) THEN next
             ELSE IF startswith(part, <<"R">>) /\ contains(part, <<"/">>) THEN next
             ELSE IF IsMeters(part)
             THEN [raised |-> FALSE, visibility |-> Some(MetersToKm(int(part)))]
             ELSE IF IsMetersNDV(part) \/ IsMetersDir(part)
             THEN [raised |-> FALSE,
                   visibility |-> Some(MetersToKm(int(SubSeq(part, 1, 4))))]
             ELSE IF SmDigits(part) # <<>>
             THEN [raised |-> FALSE, visibility |-> Some(MilesToKm(int(SmDigits(part)), 1))]
             ELSE IF FracSmGroups(part) # <<>>
             THEN FractionalSm(raw_parts, wind_index, idx, FracSmGroups(part))
             ELSE IF StopsVisibilityScan(part) THEN NoVisibility
             ELSE next

\* The index (0-based) of the first part ending in KT or MPS; 1 if none.
RECURSIVE FindWindIndex(_, _)
FindWindIndex(raw_parts, i) ==
    IF i > Len(raw_parts) THEN 1
    ELSE IF endswith(raw_parts[i], KT) \/ endswith(raw_parts[i], MPS) THEN i - 1
    ELSE FindWindIndex(raw_parts, i + 1)

CAVOK == <<"C", "A", "V", "O", "K">>

ParseVisibility(raw_parts, cavok) ==
    IF cavok THEN [raised |-> FALSE, visibility |-> Some(10000)]
    ELSE LET wind_index == FindWindIndex(raw_parts, 1)
             max_visibility_search ==
                 IF wind_index + 4 < Len(raw_parts) THEN wind_index + 4 ELSE Len(raw_parts)
         IN  VisibilityLoop(raw_parts, wind_index, 0, max_visibility_search)

(***************************************************************************)
(* MetarParser.get_parsed_data: the record, or the exception it raises.    *)
(* (raw_metar, which is the input itself, is not part of the record.)     *)
(***************************************************************************)
StationName(raw_metar) ==
    LET parts == split(raw_metar)
    IN  IF parts # <<>> /\ Len(parts[1]) = 4 /\ isalnum(parts[1])
        THEN Some(parts[1]) ELSE None

\* What a call gives back: a value, or the exception it raises.
Return(v) == [raised |-> FALSE, value |-> v, error |-> "none"]
Raise(e) == [raised |-> TRUE, value |-> <<>>, error |-> e]

get_parsed_data(raw_metar) ==
    LET raw_parts == split(raw_metar)
        cavok == contains(raw_metar, CAVOK)
        wind_data == _parse_wind(raw_parts)
        temp_dew == _parse_temp_dew(raw_parts)
        vis == ParseVisibility(raw_parts, cavok)
    IN  IF vis.raised THEN Raise("ValueError")
        ELSE Return(
        [station_name |-> StationName(raw_metar),
         cloud_layers |-> parse_cloud_layers(raw_metar),
         cloud_coverage_state |-> parse_cloud_coverage(raw_metar),
         cloud_coverage_height |-> parse_cloud_height(raw_metar),
         cloud_coverage_type |-> parse_cloud_type(raw_metar),
         weather |-> parse_weather(raw_metar),
         trend |-> parse_trend(raw_metar),
         temperature |-> temp_dew[1],
         dew_point |-> temp_dew[2],
         humidity |-> calculate_humidity(temp_dew[1], temp_dew[2]),
         wind_speed |-> wind_data.speed,
         wind_direction |-> wind_data.direction,
         wind_gust |-> wind_data.gust,
         wind_variable_direction |-> wind_data.variable,
         visibility |-> vis.visibility,
         pressure |-> _parse_pressure(raw_parts),
         cavok |-> cavok,
         auto |-> contains(raw_metar, <<"A", "U", "T", "O">>),
         runway_states |-> parse_runway_states_from_raw(raw_metar)])


(***************************************************************************)
(* MetarApiClient._validate_and_round (VALUE_RANGES and NUMERIC_PRECISION  *)
(* of const.py).  Ranges are in thousandths, the cloud height's in feet.   *)
(***************************************************************************)
VALUE_RANGES ==
    [temperature |-> <<-100000, 60000>>,
     dew_point |-> <<-100000, 60000>>,
     wind_speed |-> <<0, 370000>>,
     wind_gust |-> <<0, 556000>>,
     visibility |-> <<0, 100000>>,
     pressure |-> <<900000, 1100000>>,
     humidity |-> <<0, 100000>>,
     cloud_coverage_height |-> <<0, 50000>>]

\* round(float_val, NUMERIC_PRECISION[key]): one decimal, and none for the
\* cloud height, which is a whole number of feet already.
RoundField(key, v) == IF key = "cloud_coverage_height" THEN v ELSE round1(v)

ValidateField(key, value) ==
    IF key \in DOMAIN VALUE_RANGES /\ ~IsNone(value)
    THEN IF ~(VALUE_RANGES[key][1] <= Val(value) /\ Val(value) <= VALUE_RANGES[key][2])
         THEN None
         ELSE Some(RoundField(key, Val(value)))
    ELSE value

_validate_and_round(record) == [key \in DOMAIN record |-> ValidateField(key, record[key])]

(***************************************************************************)
(* AWCApiClient.parse_awc_response.  The response is a record of the JSON  *)
(* fields read; a field that is a string or a number is tagged:            *)
(*   [tag |-> "none"], [tag |-> "str", s |-> chars], [tag |-> "num", n].   *)
(* wdir, wspd, wgst: knots and degrees, whole numbers; visib as a number:  *)
(* hundredths of a statute mile; altim, temp, dewp: thousandths.           *)
(***************************************************************************)
JsonNull == [tag |-> "none", s |-> <<>>, n |-> 0]
JsonStr(s) == [tag |-> "str", s |-> s, n |-> 0]
JsonNum(n) == [tag |-> "num", s |-> <<>>, n |-> n]

DEFAULT_EXCELLENT_VISIBILITY_KM == 16000

RECURSIVE removeChar(_, _)
removeChar(s, c) ==
    IF s = <<>> THEN <<>>
    ELSE (IF s[1] = c THEN <<>> ELSE <<s[1]>>) \o removeChar(Tail(s), c)

\* The `if isinstance(visib, str):` branches.
AwcVisibilityOfString(visib) ==
    IF contains(visib, <<"+">>)
    THEN IF FloatOk(removeChar(visib, "+"))
         THEN Some(MilesToKm(float(removeChar(visib, "+")) \div 1000, 1))
         ELSE Some(DEFAULT_EXCELLENT_VISIBILITY_KM)
    ELSE IF contains(visib, <<" ">>) /\ contains(visib, <<"/">>)
    THEN LET space_parts == splitOn(visib, " ")
             frac_parts == splitOn(space_parts[2], "/")
         IN  IF Len(space_parts) # 2 THEN None
             ELSE IF ~FloatOk(space_parts[1]) THEN None
             ELSE IF Len(frac_parts) # 2 THEN None
             ELSE IF ~FloatOk(frac_parts[1]) \/ ~FloatOk(frac_parts[2]) THEN None
             ELSE IF float(frac_parts[2]) = 0 THEN None
             ELSE Some(MilesToKm((float(space_parts[1]) \div 1000) * (float(frac_parts[2]) \div 1000)
                                   + float(frac_parts[1]) \div 1000,
                                 float(frac_parts[2]) \div 1000))
    ELSE IF contains(visib, <<"/">>)
    THEN LET parts == splitOn(visib, "/")
         IN  IF Len(parts) # 2 THEN None
             ELSE IF ~FloatOk(parts[1]) \/ ~FloatOk(parts[2]) THEN None
             ELSE IF float(parts[2]) = 0 THEN None
             ELSE Some(MilesToKm(float(parts[1]) \div 1000, float(parts[2]) \div 1000))
    ELSE IF FloatOk(visib) THEN Some(MilesToKm(float(visib) \div 1000, 1))
    ELSE None

AwcVisibility(visib) ==
    IF visib.tag = "none" THEN None
    ELSE IF visib.tag = "str" THEN AwcVisibilityOfString(visib.s)
    ELSE Some(MilesToKm(visib.n, 100))

\* wind_direction and wind_variable of the response's wdir.
AwcWindDirection(wdir) ==
    IF wdir.tag = "num" /\ wdir.n # 0 THEN Some(1000 * wdir.n) ELSE None

AwcWindVariable(wdir) ==
    IF wdir.tag = "str" /\ wdir.s = VRB THEN VarVRB ELSE VarNone

AwcKnots(w) == IF w.tag = "none" THEN None ELSE Some(round1(w.n * KNOTS_TO_KMH))

AwcNumber(x) == IF x.tag = "none" THEN None ELSE Some(x.n)

\* One element of data["clouds"]: base 0 (falsy) becomes None.
AwcCloudLayer(cloud) ==
    CloudLayer(cloud.cover,
               IF cloud.base.tag = "num" /\ cloud.base.n # 0 THEN Some(cloud.base.n) ELSE None,
               None)

parse_awc_response(resp, raw_metar) ==
    LET visibility == AwcVisibility(resp.visib)
        cavok == contains(raw_metar, CAVOK)
        cloud_layers == [i \in DOMAIN resp.clouds |-> AwcCloudLayer(resp.clouds[i])]
        temp == AwcNumber(resp.temp)
        dewp == AwcNumber(resp.dewp)
    IN  [station_name |-> None,
         cloud_layers |-> cloud_layers,
         cloud_coverage_state |->
             IF cloud_layers # <<>> THEN cloud_layers[1].coverage ELSE "Clear",
         cloud_coverage_height |->
             IF cloud_layers # <<>> THEN cloud_layers[1].height ELSE None,
         cloud_coverage_type |-> "N/A",
         weather |-> IF resp.wxString = "" THEN "Clear" ELSE resp.wxString,
         trend |-> None,
         temperature |-> temp,
         dew_point |-> dewp,
         humidity |-> calculate_humidity(temp, dewp),
         wind_speed |-> AwcKnots(resp.wspd),
         wind_direction |-> AwcWindDirection(resp.wdir),
         wind_gust |-> AwcKnots(resp.wgst),
         wind_variable_direction |-> AwcWindVariable(resp.wdir),
         visibility |-> IF cavok /\ IsNone(visibility) THEN Some(10000) ELSE visibility,
         pressure |-> IF resp.altim.tag = "none" THEN None ELSE Some(round1(resp.altim.n)),
         cavok |-> cavok,
         auto |-> contains(raw_metar, <<"A", "U", "T", "O">>),
         runway_states |-> IF raw_metar # <<>> THEN parse_runway_states_from_raw(raw_metar)
                           ELSE NoRunwayStates]


(***************************************************************************)
(* Inputs.  The tokens raw reports are built from.                         *)
(***************************************************************************)
T_KJFK == <<"K", "J", "F", "K">>
T_EGLL == <<"E", "G", "L", "L">>
T_151200Z == <<"1", "5", "1", "2", "0", "0", "Z">>
T_27010KT == <<"2", "7", "0", "1", "0", "K", "T">>
T_27010G15KT == <<"2", "7", "0", "1", "0", "G", "1", "5", "K", "T">>
T_VRB03KT == <<"V", "R", "B", "0", "3", "K", "T">>
T_VRB03G10KT == <<"V", "R", "B", "0", "3", "G", "1", "0", "K", "T">>
T_00000KT == <<"0", "0", "0", "0", "0", "K", "T">>
T_270250KT == <<"2", "7", "0", "2", "5", "0", "K", "T">>
T_VRB250KT == <<"V", "R", "B", "2", "5", "0", "K", "T">>
T_40010KT == <<"4", "0", "0", "1", "0", "K", "T">>
T_10005MPS == <<"1", "0", "0", "0", "5", "M", "P", "S">>
T_270150MPS == <<"2", "7", "0", "1", "5", "0", "M", "P", "S">>
T_35025G40KT == <<"3", "5", "0", "2", "5", "G", "4", "0", "K", "T">>
T_180V240 == <<"1", "8", "0", "V", "2", "4", "0">>
T_TEMPO == <<"T", "E", "M", "P", "O">>
T_9999 == <<"9", "9", "9", "9">>
T_3000 == <<"3", "0", "0", "0">>
T_10SM == <<"1", "0", "S", "M">>
T_P6SM == <<"P", "6", "S", "M">>
T_1s2SM == <<"1", "/", "2", "S", "M">>
T_1 == <<"1">>
T_sup2 == <<"sup2">>
T_CAVOK == <<"C", "A", "V", "O", "K">>
T_FEW250 == <<"F", "E", "W", "2", "5", "0">>
T_FEW999 == <<"F", "E", "W", "9", "9", "9">>
T_VV002 == <<"V", "V", "0", "0", "2">>
T_05s02 == <<"0", "5", "/", "0", "2">>
T_M05sM10 == <<"M", "0", "5", "/", "M", "1", "0">>
T_15s10 == <<"1", "5", "/", "1", "0">>
T_M999sM01 == <<"M", "9", "9", "9", "/", "M", "0", "1">>
T_A3012 == <<"A", "3", "0", "1", "2">>
T_Q1013 == <<"Q", "1", "0", "1", "3">>
T_Q0850 == <<"Q", "0", "8", "5", "0">>
T_GARBAGE == <<"G", "A", "R", "B", "A", "G", "E">>

\* ' '.join(parts): the raw report made of the given tokens.
RECURSIVE Join(_)
Join(parts) ==
    IF parts = <<>> THEN <<>>
    ELSE IF Len(parts) = 1 THEN parts[1]
    ELSE parts[1] \o <<" ">> \o Join(Tail(parts))

Header == <<T_KJFK, T_151200Z>>

\* The end-to-end scenario of the specification, and its CAVOK counterpart.
ScenarioReport ==
    Join(Header \o <<T_27010G15KT, T_10SM, T_FEW250, T_05s02, T_A3012>>)

CavokReport == Join(<<T_EGLL, T_151200Z, T_27010KT, T_CAVOK, T_15s10, T_Q1013>>)

\* Groups a report may hold at each place; <<>> is "no group".
WindGroups ==
    {<<>>, <<T_27010KT>>, <<T_27010G15KT>>, <<T_VRB03KT>>, <<T_VRB03G10KT>>, <<T_00000KT>>,
     <<T_270250KT>>, <<T_VRB250KT>>, <<T_40010KT>>, <<T_10005MPS>>, <<T_270150MPS>>}

VariationGroups == {<<>>, <<T_180V240>>, <<T_9999>>}

TrendGroups == {<<>>, <<T_TEMPO, T_35025G40KT>>, <<T_00000KT>>, <<T_270250KT>>,
                <<T_40010KT>>, <<T_VRB03KT>>, <<T_VRB250KT>>}

VisibilityGroups ==
    {<<>>, <<T_9999>>, <<T_3000>>, <<T_10SM>>, <<T_P6SM>>, <<T_1s2SM>>, <<T_1, T_1s2SM>>,
     <<T_sup2, T_1s2SM>>, <<T_CAVOK>>, <<T_CAVOK, T_3000>>}

CloudGroups == {<<>>, <<T_FEW250>>, <<T_FEW999>>, <<T_VV002>>}

TemperatureGroups == {<<>>, <<T_05s02>>, <<T_M05sM10>>, <<T_M999sM01>>}

PressureGroups == {<<>>, <<T_A3012>>, <<T_Q1013>>, <<T_Q0850>>}

\* Reports about wind: an observed wind group, a variation or visibility
\* group, and a wind group of a trend.  Each case keeps its groups next to
\* the report made of them.
WindReport(w, v, t) == Join(Header \o w \o v \o t)

WindCases ==
    {[wind |-> w, variation |-> v, trend |-> t, report |-> WindReport(w, v, t)] :
        w \in WindGroups, v \in VariationGroups, t \in TrendGroups}

WindReports == {c.report : c \in WindCases}

\* Reports about the other fields.
FieldReport(w, v, c, t, p) == Join(Header \o w \o v \o c \o t \o p)

FieldCases ==
    {[wind |-> w, vis |-> v, cloud |-> c, temp |-> t, press |-> p,
      report |-> FieldReport(w, v, c, t, p)] :
        w \in {<<>>, <<T_27010KT>>}, v \in VisibilityGroups, c \in CloudGroups,
        t \in TemperatureGroups, p \in PressureGroups}

FieldReports == {c.report : c \in FieldCases}

\* Reports whose only wind token is dddssKT, over a cross of directions and
\* speeds that reaches past both ceilings.
MaxSweepDirection == 361
MaxSweepKt == 201
SweepDirections == {0, 90, 360}
SweepSpeeds == {0, 5, 200}

DigitChar(n) == <<"0", "1", "2", "3", "4", "5", "6", "7", "8", "9">>[n + 1]

\* f"{n:03d}" and f"{n:02d}".
Format03(n) == <<DigitChar(n \div 100), DigitChar((n \div 10) % 10), DigitChar(n % 10)>>
Format02(n) == IF n >= 100 THEN Format03(n) ELSE <<DigitChar(n \div 10), DigitChar(n % 10)>>

WindToken(ddd, ss) == Format03(ddd) \o Format02(ss) \o KT

\* Each case is <<ddd, ss, the report whose only wind token is dddssKT>>.
SweepCases ==
    {<<d, s, Join(Header \o <<WindToken(d, s)>>)>> :
        <<d, s>> \in ((0..MaxSweepDirection) \X SweepSpeeds)
                     \cup (SweepDirections \X (0..MaxSweepKt))}

SweepReports == {c[3] : c \in SweepCases}

\* Reports about visibility.  Each visibility group goes with the kilometres
\* (in thousandths) its form stands for: 9999 is 10 km, dddd is dddd metres,
\* n SM is round(n * 1.60934, 1), w a/b SM is round((w + a/b) * 1.60934, 1).
T_9999NDV == <<"9", "9", "9", "9", "N", "D", "V">>
T_3000NE == <<"3", "0", "0", "0", "N", "E">>
T_0800 == <<"0", "8", "0", "0">>
T_3SM == <<"3", "S", "M">>
T_3s4SM == <<"3", "/", "4", "S", "M">>
T_1s4SM == <<"1", "/", "4", "S", "M">>
T_2 == <<"2">>
T_10 == <<"1", "0">>
T_XX == <<"X", "X">>
T_YY == <<"Y", "Y">>
T_ZZ == <<"Z", "Z">>

VisibilityTable ==
    {<<<<T_9999>>, 10000>>, <<<<T_9999NDV>>, 10000>>, <<<<T_3000>>, 3000>>,
     <<<<T_3000NE>>, 3000>>, <<<<T_0800>>, 800>>, <<<<T_10SM>>, 16100>>,
     <<<<T_P6SM>>, 9700>>, <<<<T_3SM>>, 4800>>, <<<<T_1s2SM>>, 800>>,
     <<<<T_3s4SM>>, 1200>>, <<<<T_1, T_1s2SM>>, 2400>>, <<<<T_2, T_1s4SM>>, 3600>>,
     <<<<T_10, T_1s2SM>>, 16900>>}

\* What stands before the visibility group: station, time and wind; station
\* and time; the station alone.
VisibilityPrefixes == {Header \o <<T_27010KT>>, Header, <<T_KJFK>>}

\* Tokens between the prefix and the visibility group: none, tokens the scan
\* passes over, and tokens that look like cloud, temperature or pressure.
PassedOver == {<<>>, <<T_180V240>>, <<T_XX>>, <<T_XX, T_YY>>, <<T_XX, T_YY, T_ZZ>>}
StopTokens == {<<T_FEW250>>, <<T_05s02>>, <<T_Q1013>>}

VisibilityCases ==
    {[prefix |-> p, filler |-> f, vis |-> v[1], expected |-> v[2], after |-> a,
      report |-> Join(p \o f \o v[1] \o a)] :
        p \in VisibilityPrefixes, f \in PassedOver \cup StopTokens, v \in VisibilityTable,
        a \in {<<>>, <<T_0800>>}}

VisibilityReports == {c.report : c \in VisibilityCases}

\* Reports without structure: empty, blank, no station and time.
\* Reports about the temperature group: both values in range, or one of
\* them past 60 in a token short enough to be read.
T_70s02 == <<"7", "0", "/", "0", "2">>
T_05s70 == <<"0", "5", "/", "7", "0">>
TemperaturePairs ==
    {[token |-> T_05s02, both |-> TRUE], [token |-> T_M05sM10, both |-> TRUE],
     [token |-> T_70s02, both |-> FALSE], [token |-> T_05s70, both |-> FALSE]}
TemperatureReport(token) == Join(Header \o <<T_27010KT, T_9999, token, T_Q1013>>)
TemperatureReports == {TemperatureReport(p.token) : p \in TemperaturePairs}

\* Reports about the pressure group: one or two groups of the forms Qdddd
\* and Adddd in either order, tokens that only begin like one (AUTO, Q////,
\* QFE), a Q group one digit short or one digit long, and no group at all.
\* Each case keeps the pressure the first Qdddd or Adddd token stands for.
T_AUTO == <<"A", "U", "T", "O">>
T_NOSIG == <<"N", "O", "S", "I", "G">>
T_Qssss == <<"Q", "/", "/", "/", "/">>
T_QFE == <<"Q", "F", "E">>
T_Q101 == <<"Q", "1", "0", "1">>
T_Q10132 == <<"Q", "1", "0", "1", "3", "2">>
T_A2992 == <<"A", "2", "9", "9", "2">>
PressureTable ==
    {<<<<T_Q1013>>, Some(1013000)>>, <<<<T_Q0850>>, Some(850000)>>,
     <<<<T_A3012>>, Some(1020000)>>, <<<<T_A2992>>, Some(1013200)>>,
     <<<<T_Q1013, T_A3012>>, Some(1013000)>>, <<<<T_A3012, T_Q1013>>, Some(1020000)>>,
     <<<<T_Q0850, T_Q1013>>, Some(850000)>>, <<<<T_A2992, T_A3012>>, Some(1013200)>>,
     <<<<T_AUTO, T_Q1013>>, Some(1013000)>>, <<<<T_Qssss, T_A3012>>, Some(1020000)>>,
     <<<<T_QFE, T_A2992>>, Some(1013200)>>, <<<<T_Q101, T_A3012>>, Some(1020000)>>,
     <<<<T_Q10132, T_A3012>>, Some(1020000)>>,
     <<<<>>, None>>, <<<<T_NOSIG>>, None>>, <<<<T_AUTO, T_Qssss>>, None>>,
     <<<<T_Q101>>, None>>}
PressureCases ==
    {[groups |-> p[1], expected |-> p[2],
      report |-> Join(Header \o <<T_27010KT, T_9999>> \o t \o p[1])] :
        p \in PressureTable, t \in {<<>>, <<T_05s02>>}}
PressureReports == {c.report : c \in PressureCases}

\* Reports about the cloud groups, under three station identifiers: KJFK,
\* SCTE (Puerto Montt) and VVNB (Hanoi), whose names begin like a cloud
\* group.  Each case keeps the layers its cloud tokens stand for, in order.
T_SCTE == <<"S", "C", "T", "E">>
T_VVNB == <<"V", "V", "N", "B">>
T_BKN100CB == <<"B", "K", "N", "1", "0", "0", "C", "B">>
T_SCT030 == <<"S", "C", "T", "0", "3", "0">>
T_OVC050 == <<"O", "V", "C", "0", "5", "0">>
T_NSC == <<"N", "S", "C">>
T_SKC == <<"S", "K", "C">>
T_VVsss == <<"V", "V", "/", "/", "/">>
CloudTable ==
    {<<<<>>, <<>>>>,
     <<<<T_FEW250>>, <<CloudLayer("Few (1-2 oktas)", Some(25000), None)>>>>,
     <<<<T_NSC>>, <<CloudLayer("No significant clouds", None, None)>>>>,
     <<<<T_SKC>>, <<CloudLayer("Clear sky", None, None)>>>>,
     <<<<T_VV002>>, <<CloudLayer("Vertical Visibility", Some(200), Some("Obscured"))>>>>,
     <<<<T_VVsss>>, <<CloudLayer("Vertical Visibility", None, Some("Obscured (undefined)"))>>>>,
     <<<<T_FEW250, T_BKN100CB>>,
       <<CloudLayer("Few (1-2 oktas)", Some(25000), None),
         CloudLayer("Broken (5-7 oktas)", Some(10000), Some("Cumulonimbus"))>>>>,
     <<<<T_BKN100CB, T_FEW250>>,
       <<CloudLayer("Broken (5-7 oktas)", Some(10000), Some("Cumulonimbus")),
         CloudLayer("Few (1-2 oktas)", Some(25000), None)>>>>,
     <<<<T_SCT030, T_OVC050, T_SCT030>>,
       <<CloudLayer("Scattered (3-4 oktas)", Some(3000), None),
         CloudLayer("Overcast (8 oktas)", Some(5000), None),
         CloudLayer("Scattered (3-4 oktas)", Some(3000), None)>>>>}
CloudStations == {T_KJFK, T_SCTE, T_VVNB}
CloudCases ==
    {[station |-> s, groups |-> c[1], layers |-> c[2],
      report |-> Join(<<s, T_151200Z, T_27010KT, T_9999>> \o c[1] \o <<T_05s02, T_Q1013>>)] :
        s \in CloudStations, c \in CloudTable}
CloudReports == {c.report : c \in CloudCases}

\* Reports with remarks: a body, the RMK token, and remarks that hold
\* automation and pressure codes or tokens shaped like body groups.
T_RMK == <<"R", "M", "K">>
T_AO2 == <<"A", "O", "2">>
T_SLP132 == <<"S", "L", "P", "1", "3", "2">>
T_BKN014 == <<"B", "K", "N", "0", "1", "4">>
T_V == <<"V">>
T_OVC == <<"O", "V", "C">>
RemarkBodies ==
    {Header \o <<T_27010KT, T_9999, T_FEW250, T_05s02, T_Q1013>>,
     Header \o <<T_27010KT, T_10SM, T_BKN014, T_05s02, T_A3012>>,
     Header \o <<T_27010KT>>}
Remarks ==
    {<<T_AO2>>, <<T_AO2, T_SLP132>>, <<T_AO2, T_BKN014, T_V, T_OVC>>, <<T_SCT030>>,
     <<T_35025G40KT>>, <<T_A2992>>, <<T_15s10>>, <<T_3000>>}
RemarkCases ==
    {[body |-> Join(b), remarks |-> r, report |-> Join(b \o <<T_RMK>> \o r)] :
        b \in RemarkBodies, r \in Remarks}
RemarkReports == {c.report : c \in RemarkCases} \cup {c.body : c \in RemarkCases}

\* Reports without a present-weather token, under station identifiers of
\* several regions: KJFK, EGLL, VABB (Mumbai), SAEZ (Buenos Aires), SNBR
\* (Barreiras) and FGSL (Malabo).
T_VABB == <<"V", "A", "B", "B">>
T_SAEZ == <<"S", "A", "E", "Z">>
T_SNBR == <<"S", "N", "B", "R">>
T_FGSL == <<"F", "G", "S", "L">>
T_R24LsCLRD62 == <<"R", "2", "4", "L", "/", "C", "L", "R", "D", "6", "2">>
WeatherlessStations == {T_KJFK, T_EGLL, T_VABB, T_SAEZ, T_SNBR, T_FGSL}
WeatherlessBodies ==
    {<<T_151200Z, T_27010KT, T_9999, T_FEW250, T_05s02, T_Q1013>>,
     <<T_151200Z, T_27010G15KT, T_10SM, T_BKN014, T_OVC050, T_05s02, T_A3012>>,
     <<T_151200Z, T_AUTO, T_VRB03KT, T_180V240, T_9999, T_NSC, T_05s02, T_Q1013, T_NOSIG>>,
     <<T_151200Z, T_27010KT, T_3000, T_R24LsCLRD62, T_VV002, T_M05sM10, T_Q1013, T_TEMPO, T_0800>>}
WeatherlessCases ==
    {[station |-> s, report |-> Join(<<s>> \o b)] :
        s \in WeatherlessStations, b \in WeatherlessBodies}
WeatherlessReports == {c.report : c \in WeatherlessCases}

\* Reports about present weather.  Each case keeps the description the
\* decoder assembles and whether the tokens hold a phenomenon code at all
\* (TS, VCSH, FZXX and -XX hold a prefix or a descriptor only).
T_RA == <<"R", "A">>
T_mRA == <<"-", "R", "A">>
T_pTSRAGR == <<"+", "T", "S", "R", "A", "G", "R">>
T_VCSH == <<"V", "C", "S", "H">>
T_TS == <<"T", "S">>
T_FZXX == <<"F", "Z", "X", "X">>
T_mXX == <<"-", "X", "X">>
T_RASNXX == <<"R", "A", "S", "N", "X", "X">>
T_RAXXSN == <<"R", "A", "X", "X", "S", "N">>
T_XXRA == <<"X", "X", "R", "A">>
T_RAFZ == <<"R", "A", "F", "Z">>
T_MIFG == <<"M", "I", "F", "G">>
T_BR == <<"B", "R">>
T_HZ == <<"H", "Z">>
T_SHRA == <<"S", "H", "R", "A">>
WeatherTable ==
    {[tokens |-> <<T_RA>>, expected |-> "Rain", phenomenon |-> TRUE],
     [tokens |-> <<T_mRA>>, expected |-> "Light Rain", phenomenon |-> TRUE],
     [tokens |-> <<T_pTSRAGR>>, expected |-> "Heavy Thunderstorm Rain Hail", phenomenon |-> TRUE],
     [tokens |-> <<T_MIFG>>, expected |-> "Shallow Fog", phenomenon |-> TRUE],
     [tokens |-> <<T_RAFZ>>, expected |-> "Freezing Rain", phenomenon |-> TRUE],
     [tokens |-> <<T_RASNXX>>, expected |-> "Rain Snow", phenomenon |-> TRUE],
     [tokens |-> <<T_RAXXSN>>, expected |-> "Rain", phenomenon |-> TRUE],
     [tokens |-> <<T_XXRA>>, expected |-> "Clear", phenomenon |-> FALSE],
     [tokens |-> <<T_XX>>, expected |-> "Clear", phenomenon |-> FALSE],
     [tokens |-> <<T_TS>>, expected |-> "Thunderstorm", phenomenon |-> FALSE],
     [tokens |-> <<T_VCSH>>, expected |-> "Vicinity Shower", phenomenon |-> FALSE],
     [tokens |-> <<T_FZXX>>, expected |-> "Freezing", phenomenon |-> FALSE],
     [tokens |-> <<T_mXX>>, expected |-> "Light", phenomenon |-> FALSE],
     [tokens |-> <<T_RA, T_RA>>, expected |-> "Rain", phenomenon |-> TRUE],
     [tokens |-> <<T_mRA, T_RA, T_mRA>>, expected |-> "Light Rain, Rain", phenomenon |-> TRUE],
     [tokens |-> <<T_SHRA, T_BR, T_SHRA>>, expected |-> "Shower Rain, Mist", phenomenon |-> TRUE],
     [tokens |-> <<T_BR, T_HZ>>, expected |-> "Mist, Haze", phenomenon |-> TRUE]}
WeatherCases ==
    {[tokens |-> w.tokens, expected |-> w.expected, phenomenon |-> w.phenomenon,
      report |-> Join(Header \o <<T_27010KT, T_9999>> \o w.tokens \o c \o <<T_05s02, T_Q1013>>)] :
        w \in WeatherTable, c \in {<<>>, <<T_FEW250>>}}
WeatherReports == {c.report : c \in WeatherCases}

\* Reports about runway-state groups: runway designators with and without
\* a side, the cleared (CLRD), closed (SNOCLO), 4-letter and 6-character
\* forms, `//` in the depth or the friction subfield or both, two runways
\* in one report, and a runway visual range group.
T_R24sCLRD00 == <<"R", "2", "4", "/", "C", "L", "R", "D", "0", "0">>
T_R06RsCLRD99 == <<"R", "0", "6", "R", "/", "C", "L", "R", "D", "9", "9">>
T_R24LsCLRDss == <<"R", "2", "4", "L", "/", "C", "L", "R", "D", "/", "/">>
T_R24LsSNOCLO == <<"R", "2", "4", "L", "/", "S", "N", "O", "C", "L", "O">>
T_R24LsSNOW55 == <<"R", "2", "4", "L", "/", "S", "N", "O", "W", "5", "5">>
T_R24Ls123456 == <<"R", "2", "4", "L", "/", "1", "2", "3", "4", "5", "6">>
T_R88s190062 == <<"R", "8", "8", "/", "1", "9", "0", "0", "6", "2">>
T_R24Ls1234ss == <<"R", "2", "4", "L", "/", "1", "2", "3", "4", "/", "/">>
T_R24Ls12ss56 == <<"R", "2", "4", "L", "/", "1", "2", "/", "/", "5", "6">>
T_R24Ls12ssss == <<"R", "2", "4", "L", "/", "1", "2", "/", "/", "/", "/">>
T_R06s1200FT == <<"R", "0", "6", "/", "1", "2", "0", "0", "F", "T">>
RunwayGroups ==
    {T_R24LsCLRD62, T_R24sCLRD00, T_R06RsCLRD99, T_R24LsCLRDss, T_R24LsSNOCLO, T_R24LsSNOW55,
     T_R24Ls123456, T_R88s190062, T_R24Ls1234ss, T_R24Ls12ss56, T_R24Ls12ssss, T_R06s1200FT}
RunwayCases ==
    {[groups |-> g, report |-> Join(Header \o <<T_27010KT, T_9999>> \o g \o <<T_05s02, T_Q1013>>)] :
        g \in {<<r>> : r \in RunwayGroups} \cup {<<r, T_R06RsCLRD99>> : r \in RunwayGroups}}
RunwayReports == {c.report : c \in RunwayCases}

\* Cleared-runway groups Rnn[L|C|R]/CLRDff over every friction code ff, the
\* side going round none, L, C, R.  Each case is <<runway, ff, the report>>.
FrictionCodes == 0 .. 99
RunwaySides == <<<<>>, <<"L">>, <<"C">>, <<"R">>>>
ClearedRunway(ff) == <<"2", "4">> \o RunwaySides[(ff % 4) + 1]
ClearedToken(ff) == <<"R">> \o ClearedRunway(ff) \o <<"/">> \o CLRD \o Format02(ff)
ClearedCases ==
    {<<ClearedRunway(ff), ff,
       Join(Header \o <<T_27010KT, T_9999, ClearedToken(ff), T_05s02, T_Q1013>>)>> :
        ff \in FrictionCodes}
ClearedReports == {c[3] : c \in ClearedCases}

StructurelessReports == {<<>>, <<" ", " ", " ">>, T_GARBAGE}

RawReports ==
    {ScenarioReport, CavokReport} \cup WindReports \cup FieldReports \cup SweepReports
    \cup VisibilityReports \cup TemperatureReports \cup PressureReports \cup CloudReports \cup RemarkReports \cup WeatherlessReports \cup WeatherReports \cup RunwayReports \cup ClearedReports \cup StructurelessReports


(***************************************************************************)
(* AWC responses.  Three families, each varying some fields of a default   *)
(* response: visibility against the raw report, wind, and the rest.        *)
(***************************************************************************)
EmptyResponse ==
    [wdir |-> JsonNull, wspd |-> JsonNull, wgst |-> JsonNull, visib |-> JsonNull,
     altim |-> JsonNull, temp |-> JsonNull, dewp |-> JsonNull, clouds |-> <<>>,
     wxString |-> ""]

DefaultResponse ==
    [wdir |-> JsonNum(270), wspd |-> JsonNum(10), wgst |-> JsonNull,
     visib |-> JsonStr(<<"1", "0", "+">>), altim |-> JsonNum(1020000),
     temp |-> JsonNum(5000), dewp |-> JsonNum(2000),
     clouds |-> <<[cover |-> "FEW", base |-> JsonNum(25000)]>>, wxString |-> ""]

AwcVisibs ==
    {JsonNull, JsonStr(<<"1", "0", "+">>), JsonStr(<<"6", "+">>), JsonStr(<<"1", "/", "2">>),
     JsonStr(<<"1", " ", "1", "/", "2">>), JsonStr(<<"3">>), JsonNum(1000), JsonNum(25)}

AwcInputs ==
    {<<raw, [DefaultResponse EXCEPT !.visib = v]>> :
        raw \in {<<>>, ScenarioReport, CavokReport}, v \in AwcVisibs}
    \cup
    {<<ScenarioReport, [DefaultResponse EXCEPT !.wdir = d, !.wspd = w, !.wgst = g]>> :
        d \in {JsonNull, JsonStr(VRB), JsonNum(0), JsonNum(270), JsonNum(360), JsonNum(400)},
        w \in {JsonNull, JsonNum(0), JsonNum(10), JsonNum(250)},
        g \in {JsonNull, JsonNum(15), JsonNum(400)}}
    \cup
    {<<ScenarioReport, [DefaultResponse EXCEPT !.temp = t, !.dewp = d, !.altim = a, !.clouds = c]>> :
        t \in {JsonNull, JsonNum(5000), JsonNum(200000)},
        d \in {JsonNull, JsonNum(2000)},
        a \in {JsonNull, JsonNum(1013250), JsonNum(850000)},
        c \in {<<>>, <<[cover |-> "FEW", base |-> JsonNum(25000)]>>,
               <<[cover |-> "OVC", base |-> JsonNum(60000)]>>,
               <<[cover |-> "CLR", base |-> JsonNull]>>}}
    \cup {<<<<>>, EmptyResponse>>}

(***************************************************************************)
(* The decoding pipeline as a state machine.                               *)
(*   source     which client decodes: "avwx" (_fetch_from_avwx) or "awc"   *)
(*              (_fetch_from_awc)                                          *)
(*   raw_metar  the raw report: avwx_metar.raw, or the response's rawOb    *)
(*   awc        the AWC response (EmptyResponse on the AVWX path)          *)
(*   pc         "fetched": the input is there; "parsed": the decoder has   *)
(*              returned; "returned": _validate_and_round has returned to  *)
(*              the caller; "failed": the call raised                      *)
(*   data       the record, once there is one                              *)
(*   error      the exception of a failed call                             *)
(***************************************************************************)
VARIABLES source, raw_metar, awc, pc, data, error

decodeVars == <<source, raw_metar, awc, pc, data, error>>

(***************************************************************************)
(* One coordinator update (MetarDataUpdateCoordinator._async_update_data   *)
(* calling MetarApiClient.fetch_data).                                     *)
(*   now              the wall clock, in hours                             *)
(*   awc_reply        what the AWC API answers while the update runs       *)
(*   avwx_reply       what AVWX (NOAA) answers while the update runs       *)
(*   upc              where the update stands: "idle", "awc" (fetch_data   *)
(*                    awaits the primary), "avwx" (it awaits the           *)
(*                    fallback), "fetched" (fetch_data has returned),      *)
(*                    "returned" (the update returned data),               *)
(*                    "update_failed" (it raised UpdateFailed)             *)
(*   attempt          the index of the retry loop                          *)
(*   slept            the delays asyncio.sleep was called with             *)
(*   fetched          what fetch_data returned or raised                   *)
(*   _last_source     MetarApiClient._last_source                          *)
(*   consulted        the sources fetch_data has called, in order          *)
(*   previous         the reply and the record of the update before        *)
(*   updates          how many updates have finished                       *)
(*   _retry_count, _consecutive_failures   the coordinator's counters      *)
(***************************************************************************)
VARIABLES now, awc_reply, avwx_reply, upc, attempt, slept, fetched, _last_source,
          consulted, previous, updates, _retry_count, _consecutive_failures

fetchVars == <<now, awc_reply, avwx_reply, upc, attempt, slept, fetched, _last_source,
               consulted, previous, updates, _retry_count, _consecutive_failures>>

(***************************************************************************)
(* MetarHistoryStorage and the code that calls it.                         *)
(*   _data                  station -> the station's records, oldest first *)
(*   _records_since_cleanup the counter of async_add_record                *)
(*   store                  what Store holds on disk                       *)
(*   _lock                  "free", or who holds asyncio.Lock: "save"      *)
(*   debouncer              a call of _async_save_data is scheduled        *)
(*   writing                the copy Store.async_save is writing, if any   *)
(*   waiting                the calls that wait for _lock, oldest first    *)
(*   held                   the objects the callers hold: the records they *)
(*                          passed in and the results they were given      *)
(*   next_ref               the identity the next new object gets          *)
(*   spc                    "new" (constructed), "loaded" (async_load done)*)
(*   passes                 how many cleanup passes have run               *)
(*   adds                   how many async_add_record calls have run       *)
(*   called                 the call that last ran under the lock: its     *)
(*                          name and its station                           *)
(*   asides                 how many steps other than the coordinator's    *)
(*                          add of a new report have been taken            *)
(***************************************************************************)
VARIABLES _data, _records_since_cleanup, store, _lock, debouncer, writing, waiting,
          held, next_ref, spc, passes, adds, called, asides

storageVars == <<_data, _records_since_cleanup, store, _lock, debouncer, writing, waiting,
                 held, next_ref, spc, passes, adds, called, asides>>

(***************************************************************************)
(* The integration in Home Assistant (__init__.py).                        *)
(*   hass_domain     DOMAIN is a key of hass.data                          *)
(*   hass_storage    hass.data[DOMAIN] has "storage"                       *)
(*   hass_entries    the entry ids that are keys of hass.data[DOMAIN]      *)
(*   services        the services of DOMAIN registered in hass.services    *)
(*   component       what async_setup returned: "none" (not called yet),   *)
(*                   "ok" (True), "failed" (False)                         *)
(*   reloading       the step an options update has reached: <<>>, or the  *)
(*                   entry with "unload" or "setup"                        *)
(***************************************************************************)
VARIABLES hass_domain, hass_storage, hass_entries, services, component, reloading

setupVars == <<hass_domain, hass_storage, hass_entries, services, component, reloading>>

vars == <<decodeVars, fetchVars, storageVars, setupVars>>

NoData == <<>>

\* The coordinator, before any update and with nothing to fetch.
FetchIdleAt(clock) ==
    /\ now = clock /\ awc_reply = <<>> /\ avwx_reply = <<>>
    /\ upc = "off" /\ attempt = 0 /\ slept = <<>> /\ fetched = Return(None)
    /\ _last_source = None /\ consulted = <<>> /\ previous = <<>> /\ updates = 0
    /\ _retry_count = 0 /\ _consecutive_failures = 0

FetchIdle == FetchIdleAt(0)

\* The decoders, with nothing to decode.
DecodeIdle ==
    /\ source = "none" /\ raw_metar = <<>> /\ awc = <<>>
    /\ pc = "off" /\ data = NoData /\ error = "none"

\* The storage, constructed and never used.
NoStations == <<>>

StorageIdle ==
    /\ _data = NoStations /\ _records_since_cleanup = 0 /\ store = NoStations
    /\ _lock = "free" /\ debouncer = FALSE /\ writing = <<>> /\ waiting = <<>>
    /\ held = <<>> /\ next_ref = 1 /\ spc = "off" /\ passes = 0 /\ adds = 0 /\ asides = 0
    /\ called = <<>>

\* Home Assistant before the integration is set up.
SetupIdle ==
    /\ hass_domain = FALSE /\ hass_storage = FALSE /\ hass_entries = {}
    /\ services = {} /\ component = "none" /\ reloading = <<>>

\* What a step of the decoders leaves alone.
aroundDecode == <<fetchVars, storageVars, setupVars>>

Init ==
    /\ \/ source = "avwx" /\ raw_metar \in RawReports /\ awc = EmptyResponse
       \/ /\ source = "awc"
          /\ \E input \in AwcInputs : raw_metar = input[1] /\ awc = input[2]
    /\ pc = "fetched"
    /\ data = NoData
    /\ error = "none"
    /\ FetchIdle /\ StorageIdle /\ SetupIdle

\* _fetch_from_avwx, `if not self._avwx_metar.raw: raise MetarApiClientError`.
RejectEmptyRaw ==
    /\ source = "avwx" /\ pc = "fetched"
    /\ raw_metar = <<>>
    /\ pc' = "failed"
    /\ error' = "MetarApiClientError"
    /\ UNCHANGED <<source, raw_metar, awc, data>>
    /\ UNCHANGED aroundDecode

\* _fetch_from_avwx, MetarParser(...).get_parsed_data().
GetParsedData ==
    /\ source = "avwx" /\ pc = "fetched"
    /\ raw_metar # <<>>
    /\ LET r == get_parsed_data(raw_metar)
       IN  \/ /\ r.raised
              /\ pc' = "failed"
              /\ error' = r.error
              /\ data' = data
           \/ /\ ~r.raised
              /\ pc' = "parsed"
              /\ error' = error
              /\ data' = r.value
    /\ UNCHANGED <<source, raw_metar, awc>>
    /\ UNCHANGED aroundDecode

\* _fetch_from_awc, self._awc_client.parse_awc_response(raw_data).
ParseAwcResponse ==
    /\ source = "awc" /\ pc = "fetched"
    /\ data' = parse_awc_response(awc, raw_metar)
    /\ pc' = "parsed"
    /\ UNCHANGED <<source, raw_metar, awc, error>>
    /\ UNCHANGED aroundDecode

\* return self._validate_and_round(parsed), on both paths.
ValidateAndRound ==
    /\ pc = "parsed"
    /\ data' = _validate_and_round(data)
    /\ pc' = "returned"
    /\ UNCHANGED <<source, raw_metar, awc, error>>
    /\ UNCHANGED aroundDecode

Next == RejectEmptyRaw \/ GetParsedData \/ ParseAwcResponse \/ ValidateAndRound

Spec == Init /\ [][Next]_vars


(***************************************************************************)
(* Properties.  A record is "returned" once _validate_and_round has handed *)
(* it to the caller of _fetch_from_avwx / _fetch_from_awc.                 *)
(***************************************************************************)
ReturnedFromAvwx == source = "avwx" /\ pc = "returned"

\* What the end-to-end scenario says of every field but the pressure.
ScenarioFields ==
    /\ data.wind_direction = Some(270000)
    /\ data.wind_speed = Some(18500)
    /\ data.wind_gust = Some(27800)
    /\ data.visibility = Some(16100)
    /\ data.cloud_layers # <<>>
    /\ data.cloud_layers[1].coverage = "Few (1-2 oktas)"
    /\ data.cloud_layers[1].height = Some(25000)
    /\ data.temperature = Some(5000)
    /\ data.dew_point = Some(2000)
    /\ data.weather = "Clear"
    /\ data.cavok = FALSE
    /\ data.auto = FALSE

\* C1, as amended: decoding `KJFK 151200Z 27010G15KT 10SM FEW250 05/02 A3012`
\* (get_parsed_data, then _validate_and_round) yields wind direction 270,
\* speed 18.5 km/h, gust 27.8 km/h, visibility 16.1 km, a first cloud layer
\* FEW at 25000 ft, temperature 5.0, dew point 2.0, weather "Clear",
\* cavok=false, auto=false, and pressure 1020.0 hPa = round(30.12*33.8639, 1).
C1_ScenarioDecodes ==
    (ReturnedFromAvwx /\ raw_metar = ScenarioReport)
        => (ScenarioFields /\ data.pressure = Some(1020000))

\* C1, witness: the scenario report has been decoded and returned.
C1_ScenarioReturned ==
    ReturnedFromAvwx /\ raw_metar = ScenarioReport /\ data.pressure = Some(1020000)

\* C1, as stated: the same decoding yields the same fields and a pressure of
\* 1019.4 hPa at the record's 1-decimal precision.
C1_ScenarioPressure10194 ==
    (ReturnedFromAvwx /\ raw_metar = ScenarioReport)
        => (ScenarioFields /\ data.pressure = Some(1019400))


\* A field is absent or inside the range declared for `key`.
AbsentOrWithin(key, value) ==
    IsNone(value)
    \/ (VALUE_RANGES[key][1] <= Val(value) /\ Val(value) <= VALUE_RANGES[key][2])

RangedFields ==
    {"temperature", "dew_point", "humidity", "wind_speed", "wind_gust", "visibility",
     "pressure", "cloud_coverage_height"}

\* C2, as stated: in every record returned to the caller, from either source,
\* every numeric field (temperature, dew_point, humidity, wind_speed,
\* wind_gust, wind_direction in 0..360, visibility, pressure and the cloud
\* heights) is absent or inside its declared range.
C2_ReturnedFieldsInRange ==
    pc = "returned" =>
        /\ \A key \in RangedFields : AbsentOrWithin(key, data[key])
        /\ IsNone(data.wind_direction)
           \/ (0 <= Val(data.wind_direction) /\ Val(data.wind_direction) <= 1000 * MaxDirection)
        /\ \A i \in DOMAIN data.cloud_layers :
              AbsentOrWithin("cloud_coverage_height", data.cloud_layers[i].height)

\* C3, as stated: for every non-empty sequence of tokens get_parsed_data
\* returns a record and does not raise.
C3_GetParsedDataNeverRaises ==
    (source = "avwx" /\ split(raw_metar) # <<>>) => pc # "failed"

\* C4, as stated: an empty or whitespace-only raw report, or one with no
\* station/time header, is a hard failure on both paths: no record is
\* produced for it, neither by MetarParser nor by parse_awc_response.
C4_StructurelessReportFails ==
    raw_metar \in StructurelessReports => pc \notin {"parsed", "returned"}

\* The record _fetch_from_avwx returns for a report that decodes.
Decoded(report) == _validate_and_round(get_parsed_data(report).value)

\* The visibility forms dddd, nSM, P6SM, n/mSM and w n/mSM.
VisibilityForms ==
    {<<T_9999>>, <<T_3000>>, <<T_10SM>>, <<T_P6SM>>, <<T_1s2SM>>, <<T_1, T_1s2SM>>}

ValidTemperatureGroups == {<<T_05s02>>, <<T_M05sM10>>}

\* C5, as stated: field independence.  With a valid [M]dd/[M]dd token the
\* temperature and dew point are those of the same report with the
\* visibility given as 9999, whichever visibility form precedes the token;
\* and with M999/M01 the temperature is absent while wind, visibility,
\* pressure, cloud layers and weather are those of the same report with 05/02.
C5_FieldIndependence ==
    ReturnedFromAvwx =>
        \A f \in FieldCases :
            (raw_metar = f.report /\ f.vis \in VisibilityForms) =>
                /\ f.temp \in ValidTemperatureGroups =>
                      LET other == Decoded(FieldReport(f.wind, <<T_9999>>, f.cloud, f.temp, f.press))
                      IN  /\ data.temperature = other.temperature
                          /\ data.dew_point = other.dew_point
                /\ f.temp = <<T_M999sM01>> =>
                      LET other == Decoded(FieldReport(f.wind, f.vis, f.cloud, <<T_05s02>>, f.press))
                      IN  /\ IsNone(data.temperature)
                          /\ data.wind_speed = other.wind_speed
                          /\ data.wind_direction = other.wind_direction
                          /\ data.wind_gust = other.wind_gust
                          /\ data.visibility = other.visibility
                          /\ data.pressure = other.pressure
                          /\ data.cloud_layers = other.cloud_layers
                          /\ data.weather = other.weather

\* C6, as stated: after _parse_wind on any sequence of tokens, reports with
\* several wind groups included, a result marked "VRB" has no direction; and
\* a report whose wind group is the calm 00000KT has speed 0.0, no direction
\* and is not marked variable.
C6_VariableHasNoDirection ==
    (source = "avwx" /\ pc \in {"parsed", "returned"}) =>
        /\ data.wind_variable_direction = VarVRB => IsNone(data.wind_direction)
        /\ \A c \in WindCases :
              (raw_metar = c.report /\ c.wind = <<T_00000KT>> /\ c.trend = <<>>) =>
                  /\ data.wind_speed = Some(0)
                  /\ IsNone(data.wind_direction)
                  /\ data.wind_variable_direction # VarVRB


\* get_parsed_data has returned its record, which holds _parse_wind's result
\* as it is; _validate_and_round has not run yet.
ParsedByAvwx == source = "avwx" /\ pc = "parsed"

\* What C7 says of the report whose only wind token is dddssKT: the speed
\* is the tenth of a km/h nearest to ss * 1.852 (no ss lies half-way).
DirectionAndSpeedOf(ddd, ss) ==
    /\ data.wind_direction = Some(1000 * ddd)
    /\ ~IsNone(data.wind_speed)
    /\ Val(data.wind_speed) % 100 = 0
    /\ Val(data.wind_speed) - 50 < ss * KNOTS_TO_KMH
    /\ ss * KNOTS_TO_KMH < Val(data.wind_speed) + 50

ValidWindGroups ==
    {<<T_27010KT>>, <<T_27010G15KT>>, <<T_VRB03KT>>, <<T_VRB03G10KT>>, <<T_00000KT>>,
     <<T_10005MPS>>}

\* C8, as stated: with several wind-looking tokens in a report, speed,
\* direction and gust are those of the first valid wind token: a later wind
\* token does not overwrite them, and a standalone dddVddd token changes none
\* of the three.
C8_FirstWindTokenWins ==
    ReturnedFromAvwx =>
        \A c \in WindCases :
            (raw_metar = c.report /\ c.wind \in ValidWindGroups) =>
                LET first == Decoded(WindReport(c.wind, <<>>, <<>>))
                IN  /\ data.wind_speed = first.wind_speed
                    /\ data.wind_direction = first.wind_direction
                    /\ data.wind_gust = first.wind_gust

\* Wind groups with a direction above 360 or a speed above the ceiling.
OutOfRangeWindGroups == {<<T_270250KT>>, <<T_VRB250KT>>, <<T_40010KT>>, <<T_270150MPS>>}

\* C9, as stated: a wind token with a direction outside 0..360 or a speed
\* above the ceiling of its unit contributes nothing: as the only wind token
\* of a report it leaves speed, direction, gust and the variable marker absent.
C9_OutOfRangeTokenDiscarded ==
    (source = "avwx" /\ pc \in {"parsed", "returned"}) =>
        /\ \A c \in WindCases :
              (raw_metar = c.report /\ c.wind \in OutOfRangeWindGroups
               /\ c.variation = <<>> /\ c.trend = <<>>) =>
                  /\ IsNone(data.wind_speed)
                  /\ IsNone(data.wind_direction)
                  /\ IsNone(data.wind_gust)
                  /\ data.wind_variable_direction = VarNone
        /\ \A c \in SweepCases :
              (raw_metar = c[3] /\ (c[1] > MaxDirection \/ c[2] > MaxSpeedKt)) =>
                  /\ IsNone(data.wind_speed)
                  /\ IsNone(data.wind_direction)

\* C10, as stated: whenever CAVOK is in the raw report, the returned record
\* has cavok = true and visibility 10.0 km, whatever other visibility the
\* report or the AWC response's `visib` gives.
C10_CavokVisibility ==
    (pc = "returned" /\ contains(raw_metar, CAVOK)) =>
        data.cavok = TRUE /\ data.visibility = Some(10000)


\* Where the visibility scan is said to start (0-based token index): right
\* after the wind token, or after station and time when there is no wind.
HasWind(prefix) == \E i \in DOMAIN prefix : endswith(prefix[i], KT) \/ endswith(prefix[i], MPS)
ScanStart(prefix) == IF HasWind(prefix) THEN Len(prefix) ELSE 2

\* C11, as stated: a visibility token the scan reaches first decodes by its
\* form: 9999 (also with NDV or a compass suffix) to 10.0 km, another dddd
\* to dddd/1000, nSM and PnSM to round(n*1.60934, 1), a/bSM to
\* round((a/b)*1.60934, 1), and a/bSM with a standalone 1-2 digit number w
\* immediately before it to round((w + a/b)*1.60934, 1).
C11_VisibilityConversion ==
    ParsedByAvwx =>
        \A c \in VisibilityCases :
            (raw_metar = c.report /\ c.filler = <<>>
             /\ Len(c.prefix) + Len(c.vis) - 1 >= ScanStart(c.prefix)) =>
                data.visibility = Some(c.expected)

\* C12, as stated: without CAVOK the scan starts right after the first wind
\* token (or after station and time), the first visibility token wins, every
\* visibility token between the start and the first cloud-, temperature- or
\* pressure-looking token is decoded, and none at or after that token is.
C12_VisibilityScan ==
    ParsedByAvwx =>
        \A c \in VisibilityCases :
            (raw_metar = c.report /\ Len(c.prefix) >= 2) =>
                /\ c.filler \in PassedOver => data.visibility = Some(c.expected)
                /\ c.filler \in StopTokens => IsNone(data.visibility)

Returned == pc = "returned"

\* The number a response field holds, in thousandths.
InTemperatureRange(json) ==
    json.tag = "num" /\ json.n >= MinTemperature /\ json.n <= MaxTemperature

\* C13, as stated: temperature and dew point are accepted or rejected as a
\* pair on every decoding path.  From a token [M]dd/[M]dd both are returned
\* when both lie in [-100, 60] (M05/M10 gives -5.0 and -10.0) and both are
\* absent when either does not; from a response that carries both numbers,
\* the returned record never has one present and the other absent.
C13_TemperaturePair ==
    Returned =>
        /\ source = "avwx" =>
              /\ \A p \in TemperaturePairs :
                    raw_metar = TemperatureReport(p.token) =>
                        IF p.both
                        THEN ~IsNone(data.temperature) /\ ~IsNone(data.dew_point)
                        ELSE IsNone(data.temperature) /\ IsNone(data.dew_point)
              /\ raw_metar = TemperatureReport(T_M05sM10) =>
                    data.temperature = Some(-5000) /\ data.dew_point = Some(-10000)
        /\ (source = "awc" /\ awc.temp.tag = "num" /\ awc.dewp.tag = "num") =>
              /\ (InTemperatureRange(awc.temp) /\ InTemperatureRange(awc.dewp)) =>
                    ~IsNone(data.temperature) /\ ~IsNone(data.dew_point)
              /\ ~(InTemperatureRange(awc.temp) /\ InTemperatureRange(awc.dewp)) =>
                    IsNone(data.temperature) /\ IsNone(data.dew_point)

\* C14, as stated: the first token of form Qdddd or Adddd in report order
\* determines the pressure.  Qdddd gives dddd hPa (Q1013 gives 1013.0),
\* Adddd gives round((dddd/100)*33.8639, 1) hPa (A3012 gives 1020.0, A2992
\* gives 1013.2); later pressure tokens are ignored, and the pressure is
\* absent when the report has no token of either form.
C14_FirstPressureToken ==
    ParsedByAvwx =>
        \A c \in PressureCases : raw_metar = c.report => data.pressure = c.expected

\* C15, as stated: the record has exactly one layer per cloud token of the
\* report (FEW/SCT/BKN/OVC with height, SKC/CLR/NSC/NCD/CAVOK, VVnnn, VV///),
\* in report order, and no layer for any other token (station identifier,
\* time, wind, visibility); the primary coverage, height and type are those
\* of the first layer, and "Clear", absent and "N/A" when there is none.
C15_OneLayerPerCloudToken ==
    ParsedByAvwx =>
        \A c \in CloudCases :
            raw_metar = c.report =>
                /\ data.cloud_layers = c.layers
                /\ data.cloud_coverage_state =
                      IF c.layers = <<>> THEN "Clear" ELSE c.layers[1].coverage
                /\ data.cloud_coverage_height =
                      IF c.layers = <<>> THEN None ELSE c.layers[1].height
                /\ data.cloud_coverage_type =
                      IF c.layers = <<>> \/ IsNone(c.layers[1].type)
                      THEN "N/A" ELSE Val(c.layers[1].type)

\* C16, as stated: tokens at or after RMK are ignored by the field parsers.
\* A report and the same report cut just before RMK decode to the same
\* wind, visibility, temperature, dew point, pressure and cloud layers.
C16_RemarksIgnored ==
    ReturnedFromAvwx =>
        \A c \in RemarkCases :
            raw_metar = c.report =>
                LET body == Decoded(c.body)
                IN  /\ data.wind_speed = body.wind_speed
                    /\ data.wind_direction = body.wind_direction
                    /\ data.wind_gust = body.wind_gust
                    /\ data.wind_variable_direction = body.wind_variable_direction
                    /\ data.visibility = body.visibility
                    /\ data.temperature = body.temperature
                    /\ data.dew_point = body.dew_point
                    /\ data.pressure = body.pressure
                    /\ data.cloud_layers = body.cloud_layers

\* C17, as stated: the weather description is built only from
\* present-weather tokens.  The station identifier, the time and every wind,
\* runway, pressure, trend and sky token contribute nothing, so a report
\* without a present-weather token decodes to weather "Clear" whatever its
\* 4-character station identifier.
C17_NoWeatherTokenIsClear ==
    ParsedByAvwx =>
        \A c \in WeatherlessCases : raw_metar = c.report => data.weather = "Clear"

\* C18, as stated: a token yields a description only if, after the optional
\* intensity or VC prefix and the descriptors, at least one phenomenon code
\* is consumed; codes are consumed left to right until the first
\* unrecognized 2-character group; identical descriptions appear once.  A
\* report whose weather tokens hold no phenomenon code is then "Clear".
C18_DescriptionNeedsPhenomenon ==
    ParsedByAvwx =>
        \A c \in WeatherCases :
            raw_metar = c.report =>
                data.weather = IF c.phenomenon THEN c.expected ELSE "Clear"

\* C18, amended: a token yields a description when it has an intensity or
\* VC prefix or when at least one descriptor or phenomenon code is consumed
\* (TS gives "Thunderstorm", VCSH "Vicinity Shower", FZXX "Freezing", -XX
\* "Light"); codes are consumed left to right until the first unrecognized
\* 2-character group (RASNXX and RAXXSN stop at XX, XXRA yields nothing);
\* the description is the prefix word, the last descriptor, then the
\* phenomena in order; identical descriptions appear once.
C18_WeatherGrammar ==
    ParsedByAvwx =>
        \A c \in WeatherCases : raw_metar = c.report => data.weather = c.expected

C18_DescriptorOnlyDecoded ==
    /\ ParsedByAvwx
    /\ raw_metar = Join(Header \o <<T_27010KT, T_9999, T_TS, T_05s02, T_Q1013>>)
    /\ data.weather = "Thunderstorm"

Runway24L == <<"2", "4", "L">>

HasGroup(c, group) == \E i \in DOMAIN c.groups : c.groups[i] = group

\* C19, as stated: in a standard runway-state group Rnn[L|C|R]/ followed by
\* the 6-character string, `//` in the depth or the friction subfield means
\* not reported.  The runway is still in the map, with depth 0 for an
\* unreported depth and no friction for an unreported friction; the group is
\* never dropped.
C19_UnreportedSubfieldKept ==
    ReturnedFromAvwx =>
        \A c \in RunwayCases :
            raw_metar = c.report =>
                /\ HasGroup(c, T_R24Ls1234ss) =>
                      /\ Runway24L \in DOMAIN data.runway_states
                      /\ data.runway_states[Runway24L].depth = 34
                      /\ IsNone(data.runway_states[Runway24L].friction)
                /\ HasGroup(c, T_R24Ls12ss56) =>
                      /\ Runway24L \in DOMAIN data.runway_states
                      /\ data.runway_states[Runway24L].depth = 0
                      /\ data.runway_states[Runway24L].friction = Some(560)
                /\ HasGroup(c, T_R24Ls12ssss) =>
                      /\ Runway24L \in DOMAIN data.runway_states
                      /\ data.runway_states[Runway24L].depth = 0
                      /\ IsNone(data.runway_states[Runway24L].friction)

\* What C20 says of the runway whose group is CLRD with the given friction.
ClearedState(state, friction) ==
    /\ state.surface = "Clear and dry"
    /\ state.coverage = "0%"
    /\ state.depth = 0
    /\ state.friction = friction

\* C20: for every runway token Rnn[L|C|R]/CLRDff with two digits ff the
\* runway state is surface "Clear and dry", coverage "0%", depth 0 and
\* friction ff/100 (R24L/CLRD62 gives 0.62), and CLRD// gives no friction;
\* and in every runway state of any form the depth is an integer >= 0 and
\* the friction is absent or within [0, 1].
C20_ClearedRunway ==
    ReturnedFromAvwx =>
        /\ \A c \in ClearedCases :
              raw_metar = c[3] =>
                  /\ DOMAIN data.runway_states = {c[1]}
                  /\ ClearedState(data.runway_states[c[1]], Some(10 * c[2]))
        /\ \A c \in RunwayCases :
              raw_metar = c.report =>
                  /\ HasGroup(c, T_R24LsCLRD62) =>
                        /\ Runway24L \in DOMAIN data.runway_states
                        /\ ClearedState(data.runway_states[Runway24L], Some(620))
                  /\ HasGroup(c, T_R24LsCLRDss) =>
                        /\ Runway24L \in DOMAIN data.runway_states
                        /\ ClearedState(data.runway_states[Runway24L], None)
        /\ \A runway \in DOMAIN data.runway_states :
              /\ data.runway_states[runway].depth \in Nat
              /\ \/ IsNone(data.runway_states[runway].friction)
                 \/ /\ Val(data.runway_states[runway].friction) >= 0
                    /\ Val(data.runway_states[runway].friction) <= 1000

C20_ClearedRunwayDecoded ==
    /\ ReturnedFromAvwx
    /\ raw_metar = Join(Header \o <<T_27010KT, T_9999, T_R24LsCLRD62, T_05s02, T_Q1013>>)
    /\ ClearedState(data.runway_states[Runway24L], Some(620))

(***************************************************************************)
(* Instants and their texts.  An instant is a whole number of hours; its   *)
(* ISO 8601 text is cut to the day, "T", the hour and the zone:            *)
(* "1T06+00:00" is hour 6 of day 1.  A datetime is the instant and whether *)
(* it carries a zone (the code only meets UTC and naive ones).             *)
(***************************************************************************)
HoursPerDay == 24

ZoneUtc == <<"+", "0", "0", ":", "0", "0">>

utc(instant) == [instant |-> instant, aware |-> TRUE]

\* datetime.isoformat()
isoformat(dt) ==
    <<DigitChar(dt.instant \div HoursPerDay), "T">> \o Format02(dt.instant % HoursPerDay)
        \o (IF dt.aware THEN ZoneUtc ELSE <<>>)

\* datetime.fromisoformat(text): ValueError unless the text is a date, "T", a
\* time and, optionally, an offset.
fromisoformat(text) ==
    IF /\ Len(text) >= 4
       /\ text[1] \in Digits /\ text[2] = "T" /\ AllDigits(SubSeq(text, 3, 4))
       /\ int(SubSeq(text, 3, 4)) < HoursPerDay
       /\ SliceFrom(text, 4) \in {<<>>, ZoneUtc}
    THEN Return([instant |-> DigitValue(text[1]) * HoursPerDay + int(SubSeq(text, 3, 4)),
                 aware |-> SliceFrom(text, 4) = ZoneUtc])
    ELSE Raise("ValueError")

\* bool(value) of a JSON value: null, "" and 0 are false.
Truth(json) ==
    CASE json.tag = "none" -> FALSE
      [] json.tag = "str" -> json.s # <<>>
      [] json.tag = "num" -> json.n # 0

\* parse_awc_response, the observation time: obsTime when it is there and
\* parses, the wall clock otherwise.  A number has no endswith (AttributeError).
AwcObservationTime(obs_time, clock) ==
    IF Truth(obs_time)
    THEN IF obs_time.tag = "num"
         THEN Raise("AttributeError")
         ELSE LET obs_time_parsed ==
                      IF endswith(obs_time.s, <<"Z">>)
                      THEN SubSeq(obs_time.s, 1, Len(obs_time.s) - 1) \o ZoneUtc
                      ELSE obs_time.s
                  parsed == fromisoformat(obs_time_parsed)
              IN  IF parsed.raised THEN Return(utc(clock)) ELSE Return(parsed.value)
    ELSE Return(utc(clock))

\* _fetch_from_avwx, the observation time: data.time.dt when AVWX gives one,
\* the wall clock otherwise; converted to UTC.
AvwxObservationTime(time_data, clock) ==
    IF ~IsNone(time_data) THEN utc(Val(time_data)) ELSE utc(clock)

(***************************************************************************)
(* What the two sources answer.  AWC: an error (HTTP 400, 429, a timeout), *)
(* nothing (HTTP 204, an empty list) or the first element of the JSON      *)
(* list.  AVWX: an error (SourceError, a timeout), no data, or a report    *)
(* with the time AVWX read from it.                                        *)
(***************************************************************************)
AwcError == [kind |-> "error", resp |-> EmptyResponse, rawOb |-> <<>>, obsTime |-> JsonNull]
AwcNothing == [kind |-> "none", resp |-> EmptyResponse, rawOb |-> <<>>, obsTime |-> JsonNull]
AwcData(resp, rawOb, obsTime) ==
    [kind |-> "data", resp |-> resp, rawOb |-> rawOb, obsTime |-> obsTime]

AvwxError == [kind |-> "error", raw |-> <<>>, time |-> None]
AvwxNoData == [kind |-> "nodata", raw |-> <<>>, time |-> None]
AvwxData(raw, time) == [kind |-> "data", raw |-> raw, time |-> time]

WithObservationTime(record, dt) == [observation_time |-> isoformat(dt)] @@ record

\* MetarApiClient._fetch_from_awc: fetch_single_metar, parse_awc_response,
\* _validate_and_round.
_fetch_from_awc(reply, clock) ==
    CASE reply.kind = "error" -> Raise("AWCApiError")
      [] reply.kind = "none" -> Return(None)
      [] reply.kind = "data" ->
            LET observation_time == AwcObservationTime(reply.obsTime, clock)
                parsed == WithObservationTime(parse_awc_response(reply.resp, reply.rawOb),
                                              observation_time.value)
            IN  IF observation_time.raised
                THEN Raise("AWCApiError")
                ELSE Return(Some(_validate_and_round(parsed)))

\* MetarApiClient._fetch_from_avwx: update, MetarParser(...).get_parsed_data(),
\* the observation time, _validate_and_round.
_fetch_from_avwx(reply, clock) ==
    CASE reply.kind = "error" -> Raise("MetarApiClientError")
      [] reply.kind = "nodata" -> Raise("MetarApiClientError")
      [] reply.kind = "data" ->
            IF reply.raw = <<>>
            THEN Raise("MetarApiClientError")
            ELSE LET parsed == get_parsed_data(reply.raw)
                     parsed_data == WithObservationTime(parsed.value,
                                        AvwxObservationTime(reply.time, clock))
                 IN  IF parsed.raised
                     THEN Raise(parsed.error)
                     ELSE Return(Some(_validate_and_round(parsed_data)))

\* DataSource with the fallback recorded under the primary's name.
DataSource_Primary(member) == "awc"

\* DataSource, the values of the enumeration.
DataSource(member) == CASE member = "AWC" -> "awc" [] member = "AVWX" -> "avwx"

(***************************************************************************)
(* MetarHistoryStorage (storage.py).  A record that a caller can reach     *)
(* carries the identity of the dict object ("ref") and of the list object  *)
(* nested in it ("cloud_layers.ref"): two records with the same ref are    *)
(* one object.  The records of the decoders carry none.                    *)
(***************************************************************************)
MAX_RECORDS_PER_STATION == 200

CLEANUP_INTERVAL == 10

\* timedelta(days=1), in hours.
Retention == HoursPerDay

\* copy.copy(value): a new dict whose values are the same objects.
deepcopy_Shallow(value, fresh) ==
    IF "ref" \in DOMAIN value /\ "cloud_layers" \in DOMAIN value
    THEN [value EXCEPT !.ref = fresh]
    ELSE value

\* copy.deepcopy(value): a new dict, and new objects for what is nested in it.
deepcopy(value, fresh) ==
    IF "ref" \notin DOMAIN value
    THEN value
    ELSE IF "cloud_layers" \in DOMAIN value
    THEN [value EXCEPT !.ref = fresh, !.cloud_layers = [@ EXCEPT !.ref = fresh + 1]]
    ELSE [value EXCEPT !.ref = fresh]

\* The identities that deepcopy of one record uses up.
RefsPerRecord == 2

\* deepcopy(records) of a list of records.
deepcopy_list(records, fresh) ==
    [i \in DOMAIN records |-> deepcopy(records[i], fresh + RefsPerRecord * (i - 1))]

\* dt_util.parse_datetime(timestamp), then dt_util.as_utc: None for a text
\* that is no datetime; Home Assistant's zone is UTC.
parse_datetime(timestamp) ==
    LET parsed == fromisoformat(timestamp)
    IN  IF parsed.raised THEN None ELSE Some(parsed.value.instant)

\* The test of _cleanup_old_data_sync on one record: it has a timestamp that
\* parses and lies after the cutoff.
KeptByCleanup(record, clock) ==
    /\ "timestamp" \in DOMAIN record
    /\ record.timestamp # <<>>
    /\ ~IsNone(parse_datetime(record.timestamp))
    /\ Val(parse_datetime(record.timestamp)) > clock - Retention

\* The pass without `del self._data[station]`: a station whose records all
\* went keeps an empty list.
_cleanup_old_data_sync_KeepStations(stations, clock) ==
    [station \in DOMAIN stations |->
        SelectSeq(stations[station], LAMBDA record : KeptByCleanup(record, clock))]

\* MetarHistoryStorage._cleanup_old_data_sync
_cleanup_old_data_sync(stations, clock) ==
    LET filtered_records(station) ==
            SelectSeq(stations[station], LAMBDA record : KeptByCleanup(record, clock))
        remaining == {station \in DOMAIN stations : filtered_records(station) # <<>>}
    IN  [station \in remaining |-> filtered_records(station)]

\* MetarHistoryStorage._validate_stored_data, for a stored dict of lists of
\* dicts: records without a timestamp that parses are dropped, and stations
\* left without records.
_validate_stored_data(stored) ==
    LET valid(record) ==
            /\ "timestamp" \in DOMAIN record
            /\ record.timestamp # <<>>
            /\ ~IsNone(parse_datetime(record.timestamp))
        normal(record) ==
            [record EXCEPT !.timestamp = isoformat(utc(Val(parse_datetime(record.timestamp))))]
        valid_records(station) ==
            LET kept == SelectSeq(stored[station], valid)
            IN  [i \in DOMAIN kept |-> normal(kept[i])]
        remaining == {station \in DOMAIN stored : valid_records(station) # <<>>}
    IN  [station \in remaining |-> valid_records(station)]

\* The timestamp async_add_record gives a record: its observation_time when
\* it has one, the wall clock otherwise.
TimestampOf(record, clock) ==
    IF "observation_time" \in DOMAIN record /\ record.observation_time # <<>>
    THEN record.observation_time
    ELSE isoformat(utc(clock))

\* The record limit with the oldest records kept: records[:MAX - 1].
LimitRecords_Oldest(records) ==
    IF Len(records) >= MAX_RECORDS_PER_STATION
    THEN SubSeq(records, 1, MAX_RECORDS_PER_STATION - 1)
    ELSE records

\* async_add_record, the record limit: records[-(MAX - 1):] of a full list.
LimitRecords(records) ==
    IF Len(records) >= MAX_RECORDS_PER_STATION
    THEN SubSeq(records, Len(records) - (MAX_RECORDS_PER_STATION - 1) + 1, Len(records))
    ELSE records

\* MetarHistoryStorage.async_add_record, what it does while it holds the
\* lock: the new stations, the new counter and whether a cleanup pass ran.
async_add_record(stations, counter, station, record, fresh, clock) ==
    LET present == IF station \in DOMAIN stations THEN stations[station] ELSE <<>>
        limited == LimitRecords(present)
        record_copy == [timestamp |-> TimestampOf(record, clock)] @@ deepcopy(record, fresh)
        appended == (station :> Append(limited, record_copy)) @@ stations
        cleanup == counter + 1 >= CLEANUP_INTERVAL
    IN  [data |-> IF cleanup THEN _cleanup_old_data_sync(appended, clock) ELSE appended,
         counter |-> IF cleanup THEN 0 ELSE counter + 1,
         cleanup |-> cleanup]

(***************************************************************************)
(* The updates of one coordinator: _async_update_data, and fetch_data with *)
(* its two sources.  The sources answer the same all along; the clock      *)
(* moves on between and during the updates.                                *)
(***************************************************************************)
RETRY_INTERVALS == <<2, 5, 10, 30>>

StartHour == 30
MaxHour == 32
MaxUpdates == 2

\* MetarDataUpdateCoordinator.station
Station == "KJFK"

NoPressureResponse == [DefaultResponse EXCEPT !.altim = JsonNull]

NoPressureReport == Join(Header \o <<T_27010G15KT, T_10SM, T_FEW250, T_05s02>>)

T_1T05Z == <<"1", "T", "0", "5", "Z">>
T_1T05UTC == <<"1", "T", "0", "5">> \o ZoneUtc
T_1T05 == <<"1", "T", "0", "5">>

ObsTimes ==
    {JsonNull, JsonStr(T_1T05Z), JsonStr(T_1T05UTC), JsonStr(T_1T05), JsonStr(T_GARBAGE),
     JsonNum(1705320000)}

AwcReplies ==
    {AwcError, AwcNothing}
        \cup {AwcData(resp, ScenarioReport, obsTime) :
                  resp \in {DefaultResponse, NoPressureResponse}, obsTime \in ObsTimes}

AvwxTimes == {None, Some(StartHour - 1)}

AvwxReplies ==
    {AvwxError, AvwxNoData}
        \cup {AvwxData(raw, time) :
                  raw \in {ScenarioReport, NoPressureReport, T_GARBAGE, <<>>},
                  time \in AvwxTimes}

\* Home Assistant with the integration and one entry set up.
BothServices == {"update_station", "clear_history"}

SetUp ==
    /\ hass_domain = TRUE /\ hass_entries = {"entry1"} /\ component = "ok"
    /\ services = BothServices /\ reloading = <<>>

\* The storage after async_load found nothing stored.
LoadedEmpty ==
    /\ _data = NoStations /\ _records_since_cleanup = 0 /\ store = NoStations
    /\ _lock = "free" /\ debouncer = FALSE /\ writing = <<>> /\ waiting = <<>>
    /\ held = <<>> /\ next_ref = 1 /\ spc = "loaded" /\ passes = 1 /\ adds = 0 /\ asides = 0
    /\ called = <<>>

FetchInit ==
    /\ now = StartHour
    /\ awc_reply \in AwcReplies
    /\ avwx_reply \in AvwxReplies
    /\ upc = "idle" /\ attempt = 0 /\ slept = <<>> /\ fetched = Return(None)
    /\ _last_source = None /\ consulted = <<>> /\ previous = <<>> /\ updates = 0
    /\ _retry_count = 0 /\ _consecutive_failures = 0
    /\ DecodeIdle
    /\ SetUp
    /\ hass_storage \in BOOLEAN
    /\ LoadedEmpty

\* The update interval has passed: _async_update_data starts, attempt 0.
StartUpdate ==
    /\ upc = "idle" /\ updates < MaxUpdates
    /\ upc' = "awc"
    /\ attempt' = 0 /\ slept' = <<>> /\ consulted' = <<>>
    /\ UNCHANGED <<now, awc_reply, avwx_reply, fetched, _last_source, previous, updates,
                   _retry_count, _consecutive_failures>>
    /\ UNCHANGED <<decodeVars, storageVars, setupVars>>

\* fetch_data, the primary source: the try around _fetch_from_awc.
FetchFromAwc ==
    /\ upc = "awc"
    /\ consulted' = Append(consulted, "awc")
    /\ \E answer \in {_fetch_from_awc(awc_reply, now)} :
           IF ~answer.raised /\ ~IsNone(answer.value)
           THEN /\ _last_source' = Some(DataSource("AWC"))
                /\ fetched' = Return(answer.value)
                /\ upc' = "fetched"
           ELSE /\ upc' = "avwx"
                /\ UNCHANGED <<_last_source, fetched>>
    /\ UNCHANGED <<now, awc_reply, avwx_reply, attempt, slept, previous, updates,
                   _retry_count, _consecutive_failures>>
    /\ UNCHANGED <<decodeVars, storageVars, setupVars>>

\* fetch_data, the fallback: the try around _fetch_from_avwx, and return None.
FetchFromAvwx ==
    /\ upc = "avwx"
    /\ consulted' = Append(consulted, "avwx")
    /\ \E answer \in {_fetch_from_avwx(avwx_reply, now)} :
           IF ~answer.raised /\ ~IsNone(answer.value)
           THEN /\ _last_source' = Some(DataSource("AVWX"))
                /\ fetched' = Return(answer.value)
           ELSE /\ fetched' = Return(None)
                /\ UNCHANGED _last_source
    /\ upc' = "fetched"
    /\ UNCHANGED <<now, awc_reply, avwx_reply, attempt, slept, previous, updates,
                   _retry_count, _consecutive_failures>>
    /\ UNCHANGED <<decodeVars, storageVars, setupVars>>

\* _async_update_data after `data = await self.client.fetch_data()`: data is
\* stored and returned; no data ends the loop; an exception is retried after
\* the delay, unless the attempt was the last.
HandleFetched ==
    /\ upc = "fetched"
    /\ IF fetched.raised
       THEN /\ _retry_count' = attempt + 1
            /\ IF attempt < Len(RETRY_INTERVALS) - 1
               THEN /\ slept' = Append(slept, RETRY_INTERVALS[attempt + 1])
                    /\ attempt' = attempt + 1
                    /\ upc' = "awc"
                    /\ consulted' = <<>>
                    /\ UNCHANGED _consecutive_failures
               ELSE /\ _consecutive_failures' = _consecutive_failures + 1
                    /\ upc' = "update_failed"
                    /\ UNCHANGED <<slept, attempt, consulted>>
            /\ UNCHANGED storageVars
       ELSE IF ~IsNone(fetched.value)
       THEN /\ _consecutive_failures' = 0
            /\ _retry_count' = 0
            /\ IF hass_storage
               THEN \E added \in {async_add_record(_data, _records_since_cleanup, Station,
                                                    Val(fetched.value), next_ref, now)} :
                        /\ _data' = added.data
                        /\ _records_since_cleanup' = added.counter
                        /\ passes' = IF added.cleanup THEN passes + 1 ELSE passes
                        /\ adds' = adds + 1
                        /\ called' = <<"async_add_record", Station>>
                        /\ debouncer' = TRUE
                        /\ UNCHANGED <<store, _lock, writing, waiting, held, next_ref, spc,
                                       asides>>
               ELSE UNCHANGED storageVars
            /\ upc' = "returned"
            /\ UNCHANGED <<slept, attempt, consulted>>
       ELSE /\ _consecutive_failures' = _consecutive_failures + 1
            /\ upc' = "update_failed"
            /\ UNCHANGED <<slept, attempt, consulted, _retry_count>>
            /\ UNCHANGED storageVars
    /\ UNCHANGED <<now, awc_reply, avwx_reply, fetched, _last_source, previous, updates>>
    /\ UNCHANGED <<decodeVars, setupVars>>

\* The update is over; the coordinator waits for the next interval.
FinishUpdate ==
    /\ upc \in {"returned", "update_failed"}
    /\ previous' = <<[upc |-> upc, value |-> fetched.value]>>
    /\ updates' = updates + 1
    /\ upc' = "idle"
    /\ fetched' = Return(None)
    /\ UNCHANGED <<now, awc_reply, avwx_reply, attempt, slept, _last_source, consulted,
                   _retry_count, _consecutive_failures>>
    /\ UNCHANGED <<decodeVars, storageVars, setupVars>>

\* The wall clock moves on.
Tick ==
    /\ now < MaxHour
    /\ now' = now + 1
    /\ UNCHANGED <<awc_reply, avwx_reply, upc, attempt, slept, fetched, _last_source,
                   consulted, previous, updates, _retry_count, _consecutive_failures>>
    /\ UNCHANGED <<decodeVars, storageVars, setupVars>>

FetchNext ==
    StartUpdate \/ FetchFromAwc \/ FetchFromAvwx \/ HandleFetched \/ FinishUpdate \/ Tick

FetchSpec == FetchInit /\ [][FetchNext]_vars

(***************************************************************************)
(* Properties of the updates (FetchSpec).                                  *)
(***************************************************************************)
UpdateReturned == upc = "returned"

SecondReturn ==
    /\ upc = "returned"
    /\ previous # <<>>
    /\ previous[1].upc = "returned"

\* C21: decoding is deterministic and idempotent: the sources answer the same
\* in both updates, so the record the second update returns is the record the
\* first one returned, whatever the wall clock shows.
C21_SameInputSameRecord ==
    SecondReturn => fetched.value = previous[1].value

\* The record has its pressure, its temperature and its wind.
Complete(record) ==
    /\ ~IsNone(record.pressure)
    /\ ~IsNone(record.temperature)
    /\ ~IsNone(record.wind_speed)

HasData(answer) == ~answer.raised /\ ~IsNone(answer.value)

\* C22: when both sources have a record and only the fallback's has the whole
\* pressure, temperature and wind triple, fetch_data returns the fallback's.
C22_CompleteSourcePreferred ==
    upc = "fetched" =>
        \A primary \in {_fetch_from_awc(awc_reply, now)} :
        \A fallback \in {_fetch_from_avwx(avwx_reply, now)} :
            ( /\ HasData(primary) /\ HasData(fallback)
              /\ ~Complete(Val(primary.value))
              /\ Complete(Val(fallback.value)) )
                => _last_source = Some("avwx")

\* C23: a record that fetch_data returned is the decoding of one source's
\* answer, last_source names that source, and the fallback was consulted only
\* after the primary had raised or had nothing.
C23_RecordOfOneSource ==
    (upc \in {"fetched", "returned"} /\ ~IsNone(fetched.value)) =>
        \/ /\ consulted = <<"awc">>
           /\ _last_source = Some("awc")
           /\ \E t \in StartHour..now : fetched = _fetch_from_awc(awc_reply, t)
        \/ /\ consulted = <<"awc", "avwx">>
           /\ _last_source = Some("avwx")
           /\ \E t \in StartHour..now : fetched = _fetch_from_avwx(avwx_reply, t)
           /\ \A t \in StartHour..now : ~HasData(_fetch_from_awc(awc_reply, t))

\* C23, witness: the primary answered, its decoding raised, and the update
\* returned the fallback's record.
C23_FallbackRecordReturned ==
    /\ upc = "returned"
    /\ awc_reply.kind = "data"
    /\ consulted = <<"awc", "avwx">>
    /\ _last_source = Some("avwx")

Unreachable == awc_reply.kind = "error" /\ avwx_reply.kind = "error"

\* C25: when both sources are unreachable the update fails only after
\* len(RETRY_INTERVALS) attempts, with the delays 2, 5 and 10 between them.
C25_FailsAfterAllAttempts ==
    (upc = "update_failed" /\ Unreachable) =>
        /\ attempt = Len(RETRY_INTERVALS) - 1
        /\ slept = <<2, 5, 10>>

(***************************************************************************)
(* Setting the integration up and unloading it (__init__.py).  Home        *)
(* Assistant calls async_setup once, before the first entry is set up;     *)
(* an options update reloads an entry: async_unload_entry, then            *)
(* async_setup_entry.                                                      *)
(***************************************************************************)
ConfigEntries == {"entry1", "entry2"}

MaxRefreshes == 3
MaxLoads == 4

\* The record a coordinator's first refresh fetches.
FirstRecord ==
    Val(_fetch_from_awc(AwcData(DefaultResponse, ScenarioReport, JsonStr(T_1T05Z)),
                        StartHour).value)

SetupInit ==
    /\ SetupIdle
    /\ DecodeIdle
    /\ FetchIdle
    /\ _data = NoStations /\ _records_since_cleanup = 0
    /\ store \in {NoStations, (Station :> <<[timestamp |-> T_1T05UTC] @@ FirstRecord>>) @@ <<>>}
    /\ _lock = "free" /\ debouncer = FALSE /\ writing = <<>> /\ waiting = <<>>
    /\ held = <<>> /\ next_ref = 1 /\ spc = "off" /\ passes = 0 /\ adds = 0 /\ asides = 0
    /\ called = <<>>

\* storage = MetarHistoryStorage(hass); await storage.async_load(), as the
\* part of a step that creates the storage.
NewStorageLoaded ==
    /\ _data' = _cleanup_old_data_sync(_validate_stored_data(store), StartHour)
    /\ _records_since_cleanup' = 0
    /\ spc' = "loaded"
    /\ passes' = passes + 1
    /\ debouncer' = FALSE
    /\ UNCHANGED <<store, _lock, writing, waiting, held, next_ref, adds, called, asides>>

\* async_setup: the storage and the two services; False when the storage is
\* not loaded within the timeout.
AsyncSetup ==
    /\ component = "none"
    /\ hass_domain' = TRUE
    /\ \E in_time \in BOOLEAN :
           IF in_time
           THEN /\ NewStorageLoaded
                /\ hass_storage' = TRUE
                /\ services' = services \cup BothServices
                /\ component' = "ok"
           ELSE /\ component' = "failed"
                /\ UNCHANGED <<hass_storage, services, storageVars>>
    /\ UNCHANGED <<hass_entries, reloading>>
    /\ UNCHANGED <<decodeVars, fetchVars>>

\* async_setup_entry: the storage when hass.data has none, then the
\* coordinators with their first refresh, which stores the record it fetched.
AsyncSetupEntry(entry) ==
    /\ component = "ok"
    /\ entry \notin hass_entries
    /\ reloading \in {<<>>, <<entry, "setup">>}
    /\ adds < MaxRefreshes /\ passes < MaxLoads
    /\ hass_domain' = TRUE
    /\ \E in_time \in BOOLEAN, refreshed \in BOOLEAN :
           /\ hass_storage' = (hass_storage \/ in_time)
           /\ hass_entries' = IF refreshed THEN hass_entries \cup {entry} ELSE hass_entries
           /\ IF hass_storage'
              THEN \E loaded \in {IF hass_storage THEN _data
                                  ELSE _cleanup_old_data_sync(_validate_stored_data(store),
                                                              StartHour)} :
                   \E added \in {IF refreshed
                                 THEN async_add_record(loaded,
                                          IF hass_storage THEN _records_since_cleanup ELSE 0,
                                          Station, FirstRecord, next_ref, StartHour)
                                 ELSE [data |-> loaded,
                                       counter |-> IF hass_storage THEN _records_since_cleanup
                                                   ELSE 0,
                                       cleanup |-> FALSE]} :
                       /\ _data' = added.data
                       /\ _records_since_cleanup' = added.counter
                       /\ spc' = "loaded"
                       /\ passes' = passes + (IF hass_storage THEN 0 ELSE 1)
                                           + (IF added.cleanup THEN 1 ELSE 0)
                       /\ adds' = IF refreshed THEN adds + 1 ELSE adds
                       /\ called' = IF refreshed THEN <<"async_add_record", Station>>
                                     ELSE called
                       /\ debouncer' = IF refreshed THEN TRUE
                                       ELSE IF hass_storage THEN debouncer ELSE FALSE
                       /\ UNCHANGED <<store, _lock, writing, waiting, held, next_ref, asides>>
              ELSE UNCHANGED storageVars
    /\ reloading' = <<>>
    /\ UNCHANGED <<services, component>>
    /\ UNCHANGED <<decodeVars, fetchVars>>

\* async_unload_entry: the entry's coordinators go; with the last entry go
\* the services and the storage, after its final save.
AsyncUnloadEntry(entry) ==
    /\ entry \in hass_entries
    /\ reloading \in {<<>>, <<entry, "unload">>}
    /\ \E unload_ok \in BOOLEAN :
           IF unload_ok
           THEN /\ hass_entries' = hass_entries \ {entry}
                /\ IF hass_entries' = {}
                   THEN /\ services' = services \ BothServices
                        /\ hass_storage' = FALSE
                        /\ hass_domain' = FALSE
                        /\ IF hass_storage
                           THEN /\ debouncer' = FALSE
                                /\ store' = _data
                                /\ UNCHANGED <<_data, _records_since_cleanup, _lock, writing,
                                               waiting, held, next_ref, spc, passes, adds,
                                               called, asides>>
                           ELSE UNCHANGED storageVars
                   ELSE UNCHANGED <<services, hass_storage, hass_domain, storageVars>>
                /\ reloading' = IF reloading = <<>> THEN <<>> ELSE <<entry, "setup">>
           ELSE /\ reloading' = <<>>
                /\ UNCHANGED <<hass_entries, services, hass_storage, hass_domain, storageVars>>
    /\ UNCHANGED component
    /\ UNCHANGED <<decodeVars, fetchVars>>

\* update_listener: the options of a set-up entry changed, the entry reloads.
UpdateListener(entry) ==
    /\ entry \in hass_entries
    /\ reloading = <<>>
    /\ reloading' = <<entry, "unload">>
    /\ UNCHANGED <<hass_domain, hass_storage, hass_entries, services, component>>
    /\ UNCHANGED <<decodeVars, fetchVars, storageVars>>

SetupNext ==
    \/ AsyncSetup
    \/ \E entry \in ConfigEntries : AsyncSetupEntry(entry)
    \/ \E entry \in ConfigEntries : AsyncUnloadEntry(entry)
    \/ \E entry \in ConfigEntries : UpdateListener(entry)

SetupSpec == SetupInit /\ [][SetupNext]_vars

\* C24: in every state where a config entry is set up, also after the reload
\* of the only entry, both services are registered and hass.data holds a
\* history storage.
C24_ServicesAndStorageWhileSetUp ==
    hass_entries # {} => (services = BothServices /\ hass_storage)

(***************************************************************************)
(* The storage and its callers (storage.py).  The coordinators add a       *)
(* record per update; the sensors and the services read and clear; the     *)
(* debouncer saves.  A call that finds the lock taken waits in line.       *)
(***************************************************************************)
RecordsOf(stations, station) ==
    IF station \in DOMAIN stations THEN stations[station] ELSE <<>>

\* MetarHistoryStorage.async_clear_station, under the lock.
async_clear_station(stations, station) ==
    [other \in DOMAIN stations \ {station} |-> stations[other]]

\* The keys whose values are lists or dicts; the others hold primitives.
ComplexKeys == {"cloud_layers"}

\* MetarHistoryStorage.async_get_station_history, under the lock.
async_get_station_history(stations, station, key, fresh) ==
    LET records == SelectSeq(RecordsOf(stations, station), LAMBDA record : key \in DOMAIN record)
    IN  [i \in DOMAIN records |->
            IF key \in ComplexKeys
            THEN deepcopy(records[i][key], fresh + (i - 1))
            ELSE records[i][key]]

\* MetarHistoryStorage.async_get_all_station_records, under the lock.
async_get_all_station_records(stations, station, fresh) ==
    deepcopy_list(RecordsOf(stations, station), fresh)

\* MetarHistoryStorage.async_get_last_record, under the lock.
async_get_last_record(stations, station, fresh) ==
    LET records == RecordsOf(stations, station)
    IN  IF records # <<>> THEN Some(deepcopy(records[Len(records)], fresh)) ELSE None

\* What Store writes and reads back: JSON, in which no object has an identity;
\* the objects the loader makes all count as object 0.
Persisted(stations) ==
    [station \in DOMAIN stations |->
        [i \in DOMAIN stations[station] |-> deepcopy(stations[station][i], 0)]]

Stations == {"KJFK", "EGLL"}

MaxAdds == 11
MaxAsides == 2
MaxWaiting == 1

DiskRecord(instant, n) ==
    [ref |-> 0, timestamp |-> isoformat(utc(instant)),
     observation_time |-> isoformat(utc(instant)), temperature |-> Some(n),
     cloud_layers |-> [ref |-> 0, items |-> <<"FEW">>]]

\* A station at the record limit, its records an hour old.
FullStation ==
    [i \in 1..MAX_RECORDS_PER_STATION |-> DiskRecord(StartHour - 1, i - MAX_RECORDS_PER_STATION)]

\* Records older than a day, a day old to the hour, and newer; a record whose
\* timestamp is no datetime; a station with old records only.
AgedStations ==
    (Station :> <<DiskRecord(StartHour - Retention - 1, -5),
                  DiskRecord(StartHour - Retention, -4),
                  [DiskRecord(StartHour - 1, -3) EXCEPT !.timestamp = T_GARBAGE],
                  DiskRecord(StartHour - Retention + 1, -2),
                  DiskRecord(StartHour - 1, -1)>>)
        @@ ("EGLL" :> <<DiskRecord(StartHour - Retention - 1, -1)>>)

DiskContents == {(Station :> FullStation) @@ <<>>, AgedStations}

\* The record a caller passes to async_add_record: a new dict with a new list
\* in it, its observation time an hour ago, more than a day ago, or missing.
RecordKinds == {"fresh", "old", "untimed"}

CallerRecord(kind, clock, n, fresh) ==
    [ref |-> fresh,
     observation_time |->
         CASE kind = "fresh" -> isoformat(utc(clock - 1))
           [] kind = "old" -> isoformat(utc(clock - Retention - 1))
           [] kind = "untimed" -> <<>>,
     temperature |-> Some(n),
     cloud_layers |-> [ref |-> fresh + 1, items |-> <<"FEW">>]]

AddOp(station, kind) == [name |-> "async_add_record", station |-> station, arg |-> kind]
ClearOp(station) == [name |-> "async_clear_station", station |-> station, arg |-> ""]
HistoryOp(station, key) ==
    [name |-> "async_get_station_history", station |-> station, arg |-> key]
AllRecordsOp(station) ==
    [name |-> "async_get_all_station_records", station |-> station, arg |-> ""]
LastRecordOp(station) == [name |-> "async_get_last_record", station |-> station, arg |-> ""]

\* The coordinator's add of a new report of its station.
Aside(op) == IF op = AddOp(Station, "fresh") THEN 0 ELSE 1

StorageInit ==
    /\ FetchIdleAt(StartHour)
    /\ DecodeIdle
    /\ SetupIdle
    /\ _data = NoStations /\ _records_since_cleanup = 0
    /\ store \in DiskContents
    /\ _lock = "free" /\ debouncer = FALSE /\ writing = <<>> /\ waiting = <<>>
    /\ held = <<>> /\ next_ref = 1 /\ spc = "new" /\ passes = 0 /\ adds = 0 /\ asides = 0
    /\ called = <<>>

\* async_load: what is stored, validated, and a cleanup pass; an empty store
\* when reading fails.
AsyncLoad ==
    /\ spc = "new"
    /\ \E read \in BOOLEAN :
           IF read
           THEN /\ _data' = _cleanup_old_data_sync(_validate_stored_data(store), now)
                /\ passes' = passes + 1
           ELSE /\ _data' = NoStations
                /\ UNCHANGED passes
    /\ spc' = "loaded"
    /\ UNCHANGED <<_records_since_cleanup, store, _lock, debouncer, writing, waiting, held,
                   next_ref, adds, called, asides>>
    /\ UNCHANGED <<decodeVars, fetchVars, setupVars>>

\* async_add_record once it holds the lock, and the save it asks for after
\* it has released the lock.  The caller keeps the record it passed.
AddRecord(station, kind) ==
    /\ \E record \in {CallerRecord(kind, now, adds + 1, next_ref)} :
       \E added \in {async_add_record(_data, _records_since_cleanup, station, record,
                                      next_ref + RefsPerRecord, now)} :
           /\ _data' = added.data
           /\ _records_since_cleanup' = added.counter
           /\ passes' = IF added.cleanup THEN passes + 1 ELSE passes
           /\ held' = <<record>>
    /\ adds' = adds + 1
    /\ called' = <<"async_add_record", station>>
    /\ next_ref' = next_ref + 2 * RefsPerRecord
    /\ debouncer' = TRUE

\* async_clear_station once it holds the lock, and the save it asks for.
ClearStation(station) ==
    /\ _data' = async_clear_station(_data, station)
    /\ debouncer' = TRUE
    /\ called' = <<"async_clear_station", station>>
    /\ UNCHANGED <<_records_since_cleanup, passes, held, adds, next_ref>>

\* async_get_station_history once it holds the lock: the caller holds the
\* values it was given, when they are objects.
GetStationHistory(station, key) ==
    /\ held' = IF key \in ComplexKeys
               THEN async_get_station_history(_data, station, key, next_ref)
               ELSE <<>>
    /\ next_ref' = next_ref + Len(RecordsOf(_data, station))
    /\ called' = <<"async_get_station_history", station>>
    /\ UNCHANGED <<_data, _records_since_cleanup, passes, adds, debouncer>>

\* async_get_all_station_records once it holds the lock.
GetAllStationRecords(station) ==
    /\ held' = async_get_all_station_records(_data, station, next_ref)
    /\ next_ref' = next_ref + RefsPerRecord * Len(RecordsOf(_data, station))
    /\ called' = <<"async_get_all_station_records", station>>
    /\ UNCHANGED <<_data, _records_since_cleanup, passes, adds, debouncer>>

\* async_get_last_record once it holds the lock.
GetLastRecord(station) ==
    /\ held' = async_get_last_record(_data, station, next_ref)
    /\ next_ref' = next_ref + RefsPerRecord
    /\ called' = <<"async_get_last_record", station>>
    /\ UNCHANGED <<_data, _records_since_cleanup, passes, adds, debouncer>>

\* A call of the storage begins.
Enters(op) ==
    /\ spc = "loaded"
    /\ asides + Aside(op) <= MaxAsides
    /\ asides' = asides + Aside(op)

\* `async with self._lock` does not wait: the lock is free and nobody is in line.
LockFree == _lock = "free" /\ waiting = <<>>

\* `async with self._lock` waits: the call joins the line.
WaitsInLine(op) ==
    /\ Len(waiting) < MaxWaiting
    /\ waiting' = Append(waiting, op)
    /\ UNCHANGED <<_data, _records_since_cleanup, passes, held, adds, called, next_ref,
                   debouncer>>

AsyncAddRecord(station, kind) ==
    /\ Enters(AddOp(station, kind))
    /\ adds + Len(waiting) < MaxAdds
    /\ IF LockFree
       THEN AddRecord(station, kind) /\ UNCHANGED waiting
       ELSE WaitsInLine(AddOp(station, kind))
    /\ UNCHANGED <<store, _lock, writing, spc>>
    /\ UNCHANGED <<decodeVars, fetchVars, setupVars>>

AsyncClearStation(station) ==
    /\ Enters(ClearOp(station))
    /\ IF LockFree
       THEN ClearStation(station) /\ UNCHANGED waiting
       ELSE WaitsInLine(ClearOp(station))
    /\ UNCHANGED <<store, _lock, writing, spc>>
    /\ UNCHANGED <<decodeVars, fetchVars, setupVars>>

AsyncGetStationHistory(station, key) ==
    /\ Enters(HistoryOp(station, key))
    /\ IF LockFree
       THEN GetStationHistory(station, key) /\ UNCHANGED waiting
       ELSE WaitsInLine(HistoryOp(station, key))
    /\ UNCHANGED <<store, _lock, writing, spc>>
    /\ UNCHANGED <<decodeVars, fetchVars, setupVars>>

AsyncGetAllStationRecords(station) ==
    /\ Enters(AllRecordsOp(station))
    /\ IF LockFree
       THEN GetAllStationRecords(station) /\ UNCHANGED waiting
       ELSE WaitsInLine(AllRecordsOp(station))
    /\ UNCHANGED <<store, _lock, writing, spc>>
    /\ UNCHANGED <<decodeVars, fetchVars, setupVars>>

AsyncGetLastRecord(station) ==
    /\ Enters(LastRecordOp(station))
    /\ IF LockFree
       THEN GetLastRecord(station) /\ UNCHANGED waiting
       ELSE WaitsInLine(LastRecordOp(station))
    /\ UNCHANGED <<store, _lock, writing, spc>>
    /\ UNCHANGED <<decodeVars, fetchVars, setupVars>>

\* The call at the head of the line, run.
Perform(op) ==
    CASE op.name = "async_add_record" -> AddRecord(op.station, op.arg)
      [] op.name = "async_clear_station" -> ClearStation(op.station)
      [] op.name = "async_get_station_history" -> GetStationHistory(op.station, op.arg)
      [] op.name = "async_get_all_station_records" -> GetAllStationRecords(op.station)
      [] op.name = "async_get_last_record" -> GetLastRecord(op.station)

\* The lock is released: the call that waited longest takes it.
LockAcquired ==
    /\ _lock = "free" /\ waiting # <<>>
    /\ Perform(Head(waiting))
    /\ waiting' = Tail(waiting)
    /\ UNCHANGED <<store, _lock, writing, spc, asides>>
    /\ UNCHANGED <<decodeVars, fetchVars, setupVars>>

\* The debouncer's cooldown is over: _async_save_data takes the lock, copies
\* the data and starts Store.async_save.
SaveData ==
    /\ spc = "loaded"
    /\ debouncer
    /\ _lock = "free" /\ waiting = <<>>
    /\ asides < MaxAsides
    /\ asides' = asides + 1
    /\ _lock' = "save"
    /\ writing' = Some(Persisted(_data))
    /\ debouncer' = FALSE
    /\ UNCHANGED <<_data, _records_since_cleanup, store, waiting, held, next_ref, spc,
                   passes, adds, called>>
    /\ UNCHANGED <<decodeVars, fetchVars, setupVars>>

\* Store.async_save is over, written or failed: _async_save_data releases
\* the lock.
DataSaved ==
    /\ _lock = "save"
    /\ \E written \in BOOLEAN : store' = IF written THEN Val(writing) ELSE store
    /\ writing' = <<>>
    /\ _lock' = "free"
    /\ UNCHANGED <<_data, _records_since_cleanup, debouncer, waiting, held, next_ref, spc,
                   passes, adds, called, asides>>
    /\ UNCHANGED <<decodeVars, fetchVars, setupVars>>

\* The identities of an object and of what is nested in it.
RefsOf(object) ==
    {object.ref} \cup (IF "cloud_layers" \in DOMAIN object THEN {object.cloud_layers.ref}
                       ELSE {})

\* A caller changes the objects `refs`: every holder of one of them sees it.
Touch(object, refs) ==
    LET outer == IF object.ref \notin refs THEN object
                 ELSE IF "temperature" \in DOMAIN object
                 THEN [object EXCEPT !.temperature = Some(-999)]
                 ELSE [object EXCEPT !.items = <<"changed">>]
    IN  IF "cloud_layers" \in DOMAIN outer /\ outer.cloud_layers.ref \in refs
        THEN [outer EXCEPT !.cloud_layers = [@ EXCEPT !.items = <<"changed">>]]
        ELSE outer

\* A caller changes an object it holds, the dict and the list in it.
CallerMutates ==
    /\ held # <<>>
    /\ asides < MaxAsides
    /\ asides' = asides + 1
    /\ \E i \in {1, Len(held)} :
           /\ held' = [j \in DOMAIN held |-> Touch(held[j], RefsOf(held[i]))]
           /\ _data' = [station \in DOMAIN _data |->
                           [j \in DOMAIN _data[station] |->
                               Touch(_data[station][j], RefsOf(held[i]))]]
    /\ UNCHANGED <<_records_since_cleanup, store, _lock, debouncer, writing, waiting,
                   next_ref, spc, passes, adds, called>>
    /\ UNCHANGED <<decodeVars, fetchVars, setupVars>>

\* The wall clock moves on by an hour.
TimePasses ==
    /\ now < MaxHour
    /\ asides < MaxAsides
    /\ asides' = asides + 1
    /\ now' = now + 1
    /\ UNCHANGED <<awc_reply, avwx_reply, upc, attempt, slept, fetched, _last_source,
                   consulted, previous, updates, _retry_count, _consecutive_failures>>
    /\ UNCHANGED <<_data, _records_since_cleanup, store, _lock, debouncer, writing, waiting,
                   held, next_ref, spc, passes, adds, called>>
    /\ UNCHANGED <<decodeVars, setupVars>>

StorageNext ==
    \/ AsyncLoad
    \/ \E station \in Stations, kind \in RecordKinds : AsyncAddRecord(station, kind)
    \/ \E station \in Stations : AsyncClearStation(station)
    \/ \E station \in Stations, key \in {"temperature", "cloud_layers"} :
           AsyncGetStationHistory(station, key)
    \/ \E station \in Stations : AsyncGetAllStationRecords(station)
    \/ \E station \in Stations : AsyncGetLastRecord(station)
    \/ LockAcquired
    \/ SaveData
    \/ DataSaved
    \/ CallerMutates
    \/ TimePasses

StorageSpec == StorageInit /\ [][StorageNext]_vars

(***************************************************************************)
(* The record limit of a station (storage.py 129-140).                     *)
(***************************************************************************)
\* An async_add_record has just run under the lock.
RecordAdded == adds' = adds + 1

\* The station the add went to was at the limit before it.
AddedAtLimit(station) ==
    /\ RecordAdded
    /\ called' = <<"async_add_record", station>>
    /\ Len(RecordsOf(_data, station)) = MAX_RECORDS_PER_STATION

\* The newest records but one stay in their order and the new record, which
\* the caller still holds, is last.
NewestKeptNewLast(station) ==
    LET before == RecordsOf(_data, station)
        after == RecordsOf(_data', station)
    IN  /\ Len(after) = MAX_RECORDS_PER_STATION
        /\ SubSeq(after, 1, MAX_RECORDS_PER_STATION - 1) = Tail(before)
        /\ after[MAX_RECORDS_PER_STATION].temperature = held'[1].temperature
        /\ after[MAX_RECORDS_PER_STATION].timestamp = TimestampOf(held'[1], now)

AtMostMaxRecords ==
    \A station \in DOMAIN _data : Len(_data[station]) <= MAX_RECORDS_PER_STATION

\* C26, as stated: no station ever holds more than MAX_RECORDS_PER_STATION
\* records, and every add to a station at the limit leaves the newest records
\* in insertion order with the new record last.
C26_LimitDropsOldest ==
    /\ []AtMostMaxRecords
    /\ [][\A station \in Stations : AddedAtLimit(station) => NewestKeptNewLast(station)]_vars

\* The add was the CLEANUP_INTERVAL-th: a cleanup pass ran in the same call.
PassRan == passes' = passes + 1

\* What the pass of that add leaves of a station at the limit: of the newest
\* records but one those it keeps, then the new record if the pass keeps it.
NewestKeptByPass(station) ==
    LET before == RecordsOf(_data, station)
        after == RecordsOf(_data', station)
        kept == SelectSeq(Tail(before), LAMBDA record : KeptByCleanup(record, now))
    IN  IF KeptByCleanup([timestamp |-> TimestampOf(held'[1], now)], now)
        THEN /\ Len(after) = Len(kept) + 1
             /\ SubSeq(after, 1, Len(kept)) = kept
             /\ after[Len(after)].temperature = held'[1].temperature
        ELSE after = kept

\* C26, amended: no station ever holds more than MAX_RECORDS_PER_STATION
\* records; an add to a station at the limit that runs no cleanup pass drops
\* the oldest record and puts the new record last; when the add runs the pass,
\* the pass removes what is older than 24 hours from that list, the new record
\* included.
C26_LimitDropsOldestBeforePass ==
    /\ []AtMostMaxRecords
    /\ [][\A station \in Stations :
              AddedAtLimit(station) =>
                  IF PassRan THEN NewestKeptByPass(station) ELSE NewestKeptNewLast(station)]_vars

\* A station at the limit has taken a new record: it holds the newest of the
\* loaded records and the added one, last.
C26_FullStationTookRecord ==
    /\ adds > 0
    /\ Len(RecordsOf(_data, Station)) = MAX_RECORDS_PER_STATION
    /\ _data[Station][MAX_RECORDS_PER_STATION].temperature = Some(adds)
    /\ _data[Station][1].temperature = Some(adds + 1 - MAX_RECORDS_PER_STATION)

(***************************************************************************)
(* The retention of the history (storage.py 142-146, 163-199).             *)
(***************************************************************************)
\* async_load has just run.
Loaded == spc = "new" /\ spc' = "loaded"

\* The age of a stored record by its timestamp, in hours; none when the
\* timestamp is no datetime.
AgeOf(record) ==
    LET instant == parse_datetime(record.timestamp)
    IN  IF IsNone(instant) THEN None ELSE Some(now - Val(instant))

OlderThanADay(record) ==
    LET age == AgeOf(record) IN ~IsNone(age) /\ Val(age) > HoursPerDay

NewerThanADay(record) ==
    LET age == AgeOf(record) IN ~IsNone(age) /\ Val(age) < HoursPerDay

\* The list of a station as the pass of this step found it: what was stored,
\* read by async_load; the station's list, for the station of the add without
\* the record the limit drops.
FoundByPass(station) ==
    IF Loaded THEN RecordsOf(store, station)
    ELSE IF called' = <<"async_add_record", station>>
            /\ Len(RecordsOf(_data, station)) >= MAX_RECORDS_PER_STATION
    THEN Tail(_data[station])
    ELSE RecordsOf(_data, station)

\* The record of this add as it is stored, when the pass of the add keeps it.
AddedAndKept(station) ==
    LET after == RecordsOf(_data', station)
    IN  IF /\ RecordAdded
           /\ called' = <<"async_add_record", station>>
           /\ after # <<>>
           /\ after[Len(after)].temperature = held'[1].temperature
        THEN <<after[Len(after)]>>
        ELSE <<>>

\* Right after a pass: nothing older than 24 hours is stored, no station has
\* an empty list, and what is newer than 24 hours is there as it was, in order.
LeftByPass ==
    /\ \A station \in DOMAIN _data' :
           /\ _data'[station] # <<>>
           /\ \A i \in DOMAIN _data'[station] : ~OlderThanADay(_data'[station][i])
    /\ \A station \in Stations :
           SelectSeq(RecordsOf(_data', station), NewerThanADay)
               = SelectSeq(FoundByPass(station), NewerThanADay) \o AddedAndKept(station)
    /\ \A station \in Stations :
           (/\ RecordAdded
            /\ called' = <<"async_add_record", station>>
            /\ NewerThanADay([timestamp |-> TimestampOf(held'[1], now)]))
               => AddedAndKept(station) # <<>>

\* C27: the counter counts the adds of all stations since the last pass; a
\* pass runs on async_load (it has nothing to run on when the store could not
\* be read: the history is empty then) and on exactly every
\* CLEANUP_INTERVAL-th add, after which the counter is 0; right after a pass
\* nothing older than 24 hours is stored, no station has an empty list and
\* the records newer than 24 hours are kept unchanged and in order.
C27_PassEveryTenthAdd ==
    /\ [](_records_since_cleanup = adds % CLEANUP_INTERVAL)
    /\ [][/\ RecordAdded => (PassRan <=> adds' % CLEANUP_INTERVAL = 0)
          /\ ~RecordAdded /\ ~Loaded => passes' = passes
          /\ (RecordAdded /\ adds' % CLEANUP_INTERVAL = 0) =>
                 (_records_since_cleanup' = 0 /\ LeftByPass)
          /\ Loaded => /\ _records_since_cleanup' = 0
                       /\ IF PassRan THEN LeftByPass ELSE _data' = NoStations]_vars

\* The tenth add has run its pass two hours after the load: the record that
\* was 23 hours old at the load is gone, the newer one is first.
C27_TenthAddRanPass ==
    /\ adds = CLEANUP_INTERVAL /\ passes = 2 /\ _records_since_cleanup = 0
    /\ now = StartHour + 2
    /\ Station \in DOMAIN _data
    /\ _data[Station][1].temperature = Some(-1)
    /\ "EGLL" \notin DOMAIN _data

\* C28: while Store.async_save is writing the history, no async_add_record
\* and no async_get_station_history waits for the lock.
C28_NoCallWaitsForWrite ==
    writing # <<>> =>
        \A i \in DOMAIN waiting :
            waiting[i].name \notin {"async_add_record", "async_get_station_history"}

(***************************************************************************)
(* The callers' objects and the stored ones (storage.py 133, 221, 268,     *)
(* 291).                                                                   *)
(***************************************************************************)
\* The identities of the dicts and lists the storage holds.
StoredRefs ==
    UNION {UNION {RefsOf(_data[station][i]) : i \in DOMAIN _data[station]} :
               station \in DOMAIN _data}

\* The identities of the dicts and lists the callers hold.
HeldRefs == UNION {RefsOf(held[i]) : i \in DOMAIN held}

\* A caller has just changed an object it holds.
Mutated ==
    /\ held # <<>> /\ held' # held
    /\ Len(held') = Len(held)
    /\ adds' = adds /\ next_ref' = next_ref

\* C29: no dict or list that a caller holds, neither the record it passed to
\* async_add_record nor a value a getter returned, is one the storage holds,
\* and a caller's change of what it holds leaves the stored data of every
\* station unchanged.
C29_CallersHoldCopies ==
    /\ [](StoredRefs \cap HeldRefs = {})
    /\ [][Mutated => _data' = _data]_vars

\* The caller has changed the record it passed to async_add_record, the dict
\* and the list in it; the stored record is as it was added.
C29_PassedRecordChanged ==
    /\ held # <<>>
    /\ "observation_time" \in DOMAIN held[1] /\ "timestamp" \notin DOMAIN held[1]
    /\ held[1].temperature = Some(-999)
    /\ held[1].cloud_layers.items = <<"changed">>
    /\ \E station \in DOMAIN _data :
           LET last == _data[station][Len(_data[station])]
           IN  last.temperature = Some(adds) /\ last.cloud_layers.items = <<"FEW">>

\* C30: in every returned record, of either source, humidity is present only
\* if temperature and dew_point are both present in that record, and a
\* present humidity lies in [0, 100].
C30_HumidityNeedsTemperaturePair ==
    (Returned /\ ~IsNone(data.humidity)) =>
        /\ ~IsNone(data.temperature) /\ ~IsNone(data.dew_point)
        /\ Val(data.humidity) >= 0 /\ Val(data.humidity) <= 100 * 1000

=============================================================================
